---- MODULE Spec2Model ----
(***************************************************************************)
(* Credential deployment pipeline of the SSH key portal: the apply queue,  *)
(* the apply worker, the deployment executor and the key-mutation request  *)
(* handlers that feed the queue.                                           *)
(*                                                                         *)
(* Request handlers run as one step each (they perform no remote I/O).     *)
(* The apply worker is split at its blocking points: the commit that marks *)
(* an entry running, the render, the connect, the remote write and the     *)
(* close of the session; an exception handler runs in the step that raised *)
(* the exception.  Each outcome of a remote call is an action of its own.  *)
(*                                                                         *)
(* Specifications (same actions, different starting databases):            *)
(*   Spec       one identity with two bindings: queue, worker, retries     *)
(*   SpecOrder  three identities with one active binding each: priorities  *)
(*   SpecKeys   one identity, its keys and the four key-set mutations      *)
(*   SpecDeploy one binding, every failure stage of the remote update      *)
(***************************************************************************)
EXTENDS Integers, Sequences, FiniteSets, TLC

\* ------------------------------------------------------------------ bounds
MaxTime == 180          \* the clock stops here (seconds)
MaxOrderTime == 60      \* the same, where one retry delay is enough
TickStep == 60          \* granularity of the clock (seconds)
MaxEntries == 3         \* apply_queue rows ever inserted
MaxKeys == 2            \* ssh_keys rows ever inserted
MaxDeployments == 2     \* deployments rows ever inserted
MaxPolicies == 4        \* policies rows ever stored
MaxKeyLines == 2        \* lines in the text of one public key
MaxRateKeys == 5        \* ssh_keys rows ever inserted, where the quota matters
RateStep == 900         \* granularity of the clock, where the quota matters
MaxRateTime == 7200     \* the clock stops here, where the quota matters
MaintStepDays == 4      \* granularity of the clock in days, where retention matters
MaxMaintDays == 16      \* the clock stops here, where retention matters
MaxRaceKeys == 6        \* ssh_keys rows ever inserted, where requests overlap
SweepStepDays == 8      \* granularity of the clock in days, where the sweep can raise
MaxLockKeys == 10       \* ssh_keys rows ever inserted, where a lockout is renewed
RemindStep == 43200     \* granularity of the clock, where reminders are queued
MaxRemindDays == 2      \* the clock stops here, where reminders are queued
ScanStep == 1800        \* granularity of the clock, where activity is scanned
MaxScanTime == 9000     \* the clock stops here, where activity is scanned
MaxScanOps == 1         \* operations recorded in one counter, where activity is scanned
MaxAlerts == 3          \* alerts stored before acknowledging stops

\* ------------------------------------------------------- program constants
max_retries == 3
retry_delay == 60
RATE_LIMIT_import == 10
RATE_LIMIT_generate == 5
LOCKOUT_rate_limit == 60
HourSeconds == 3600
DaySeconds == 86400
RetentionDays == 7
BASELINE_HOURS == 23
SPIKE_RATIO == 3
REVOKE_SPIKE == 10

\* ------------------------------------------------------------- the universe
Users == {"u1", "u2", "u3"}
Bindings == {"b1", "b2", "b3", "b4"}
\* user_host_accounts.user_id of each binding
BindingUser == [b \in Bindings |->
                  IF b = "b3" THEN "u2" ELSE IF b = "b4" THEN "u3" ELSE "u1"]
\* priorities passed to the enqueue functions (keys.py uses 0, admin.py 1)
Priorities == {0, 5}

NoResp == [op |-> "none", user |-> "none", ok |-> FALSE, queued |-> 0, again |-> FALSE]

VARIABLES
    now,                \* datetime.utcnow()
    fk_enforced,        \* does the database enforce ON DELETE CASCADE
    users,              \* users rows that exist
    user_host_accounts, \* binding -> "absent" | "active" | "disabled"
    ssh_keys,           \* set of SSHKey rows
    next_key,           \* next SSHKey id
    apply_queue,        \* set of ApplyQueue rows
    next_id,            \* next ApplyQueue creation number
    deployments,        \* set of Deployment rows
    next_dep,           \* next Deployment id
    rate_limits,        \* set of RateLimitRecord rows
    lockouts,           \* set of SecurityLockout rows
    worker,             \* position and locals of ApplyWorker.process_queue
    dirty,              \* binding -> a committed, enqueued key mutation is not rendered yet
    resp,               \* what the step just taken returned to its caller
    policies,           \* set of Policy rows
    sessions,           \* admin -> position and locals of its set_policy call
    recorded,           \* every record_operation call so far, in order
    validation,         \* the last validate_key_against_policy call and its result
    callers,            \* caller -> position and locals of its enqueue call
    pollers,            \* worker instance -> position and locals of its process_queue
    requests,           \* request -> position and locals of its generate_key call
    remote,             \* binding -> the files of its remote .ssh directory
    loop,               \* the flag and the position of ApplyWorker.start
    notification_queue, \* set of NotificationQueue rows
    next_note,          \* next NotificationQueue id
    security_alerts     \* set of SecurityAlert rows

vars == <<now, fk_enforced, users, user_host_accounts, ssh_keys, next_key,
          apply_queue, next_id, deployments, next_dep, rate_limits, lockouts,
          worker, dirty, resp, policies, sessions, recorded, validation,
          callers, pollers, requests, remote, loop, notification_queue, next_note,
          security_alerts>>

\* the calls that run side by side with others, and the remote hosts
conc == <<callers, pollers, requests, remote>>

\* the worker loop, the notifications and the alerts
bg == <<loop, notification_queue, next_note, security_alerts>>

\* the state of the policy store and of the security bookkeeping log, and
\* the above
ext == <<policies, sessions, recorded, validation, conc, bg>>

IdleWorker == [pc |-> "idle", item |-> 0, content |-> <<>>, key_count |-> 0, dep |-> 0]

\* administrators whose requests reach PolicyService.set_policy
Admins == {"a1", "a2"}

\* a database session that is not inside set_policy
IdleSession == [pc |-> "idle", current |-> 0, rules |-> <<>>]

NoValidation == [called |-> FALSE]

\* requests that are inside an enqueue function at the same time
Callers == {"c1", "c2"}

\* a request that is not inside an enqueue function
IdleCaller == [pc |-> "idle", todo |-> {}, priority |-> 0]

\* apply-worker instances polling the same apply_queue table
Workers == {"w1", "w2"}

\* a worker instance between two polls
IdlePoller == [pc |-> "idle", item |-> 0]

\* requests that are inside generate_key at the same time
Clients == {"r1", "r2"}

\* a client with no generate_key request under way
IdleClient == [pc |-> "idle", user |-> "none"]

\* the files of a remote .ssh directory
Paths == {"authorized_keys", "authorized_keys.tmp"}

\* a path with no file
NoFile == [exists |-> FALSE, content |-> <<>>]

\* ApplyWorker.__init__ and the task of start() that has not run yet; during
\* is the entry that was being processed when stop() was called
NewLoop == [running |-> FALSE, pc |-> "created", during |-> 0]

\* ----------------------------------------------------------------- helpers
ActiveAccountsOf(u) ==
    {b \in Bindings : BindingUser[b] = u /\ user_host_accounts[b] = "active"}

ActiveAccounts == {b \in Bindings : user_host_accounts[b] = "active"}

\* the existence check looking at queued rows only
Pending_QueuedOnly(q, b) ==
    {e \in q : e.user_host_account_id = b /\ e.status = "queued"}

Pending(q, b) ==
    {e \in q : e.user_host_account_id = b /\ e.status \in {"queued", "running"}}

Orders(S) ==
    {f \in [1..Cardinality(S) -> S] : \A i, j \in 1..Cardinality(S) : f[i] = f[j] => i = j}

NewQueueItem(b, priority, n) ==
    [id |-> n, user_host_account_id |-> b, priority |-> priority,
     status |-> "queued", scheduled_at |-> now, retry_count |-> 0,
     error |-> "", finished_at |-> -1, created_at |-> n]

\* the loop adding a row without the existence check
ToQueue_NoCheck(accounts) == accounts

\* the accounts for which the loop of queue_apply_for_user adds a row
ToQueue(accounts) == {b \in accounts : Pending(apply_queue, b) = {}}

\* the rows added by one enqueue call, created in the order ord
QueuedRows(ord, priority) ==
    {NewQueueItem(ord[i], priority, next_id + i - 1) : i \in DOMAIN ord}

BucketStart(t) == (t \div HourSeconds) * HourSeconds

RECURSIVE SumCounts(_)
SumCounts(S) ==
    IF S = {} THEN 0
    ELSE LET r == CHOOSE x \in S : TRUE IN r.count + SumCounts(S \ {r})

RateLimit(op) == IF op = "import" THEN RATE_LIMIT_import ELSE RATE_LIMIT_generate

check_lockout(u) ==
    \E l \in lockouts : l.user_id = u /\ l.is_active /\ l.locked_until > now

\* the sum over every counter, whatever its window
RateCount_AllTime(u, op) ==
    SumCounts({r \in rate_limits : r.user_id = u /\ r.operation_type = op})

RateCount(u, op) ==
    SumCounts({r \in rate_limits : r.user_id = u /\ r.operation_type = op
                                   /\ r.window_start >= now - HourSeconds})

check_rate_limit(u, op) == RateCount(u, op) < RateLimit(op)

\* a lockout row inserted without looking for an active one
create_lockout_Insert(u, type) ==
    lockouts \cup
    {[user_id |-> u, lockout_type |-> type, locked_until |-> now + LOCKOUT_rate_limit * 60,
      attempt_count |-> 1, is_active |-> TRUE, created_at |-> now]}

create_lockout(u, type) ==
    LET until == now + LOCKOUT_rate_limit * 60
        old == {l \in lockouts : l.user_id = u /\ l.lockout_type = type /\ l.is_active}
    IN  IF old # {}
        THEN LET l == CHOOSE x \in old : TRUE
             IN (lockouts \ {l}) \cup
                {[l EXCEPT !.locked_until = until, !.attempt_count = @ + 1]}
        ELSE lockouts \cup
             {[user_id |-> u, lockout_type |-> type, locked_until |-> until,
               attempt_count |-> 1, is_active |-> TRUE, created_at |-> now]}

record_operation(u, op) ==
    LET ws == BucketStart(now)
        old == {r \in rate_limits : r.user_id = u /\ r.operation_type = op
                                    /\ r.window_start = ws}
    IN  IF old # {}
        THEN LET r == CHOOSE x \in old : TRUE
             IN (rate_limits \ {r}) \cup {[r EXCEPT !.count = @ + 1]}
        ELSE rate_limits \cup
             {[user_id |-> u, operation_type |-> op, window_start |-> ws,
               count |-> 1, created_at |-> now]}

\* -------------------------------------------------------------------- Init
\* the database with the given users registered and the given bindings
Database(registered, accounts, cascades) ==
    /\ now = 0
    /\ fk_enforced \in cascades
    /\ users = registered
    /\ user_host_accounts = accounts
    /\ ssh_keys = {}
    /\ next_key = 1
    /\ apply_queue = {}
    /\ next_id = 1
    /\ deployments = {}
    /\ next_dep = 1
    /\ rate_limits = {}
    /\ lockouts = {}
    /\ worker = IdleWorker
    /\ dirty = [b \in Bindings |-> FALSE]
    /\ resp = NoResp
    /\ sessions = [a \in Admins |-> IdleSession]
    /\ recorded = <<>>
    /\ callers = [c \in Callers |-> IdleCaller]
    /\ pollers = [w \in Workers |-> IdlePoller]
    /\ requests = [r \in Clients |-> IdleClient]
    /\ remote = [b \in Bindings |-> [p \in Paths |-> NoFile]]
    /\ loop = NewLoop
    /\ notification_queue = {}
    /\ next_note = 1
    /\ security_alerts = {}

\* the policies table as first created: no row, get_current_policy falls
\* back to the defaults
NoPolicies == policies = {}

\* no preview request is being served
NoRequest == validation = NoValidation

NoAccounts == [b \in Bindings |-> "absent"]

Init == Database({"u1"}, NoAccounts, BOOLEAN) /\ NoPolicies /\ NoRequest

\* ---------------------------------------------------------- enqueue calls
\* a handler that commits the key change and never enqueues
Enqueue_Skip(accounts, priority) == UNCHANGED <<apply_queue, next_id>>

\* the loop and the commit of queue_apply_for_user / queue_apply_for_all_users
Enqueue(accounts, priority) ==
    LET todo == ToQueue(accounts)
    IN /\ next_id + Cardinality(todo) - 1 <= MaxEntries
       /\ \E ord \in Orders(todo) :
             apply_queue' = apply_queue \cup QueuedRows(ord, priority)
       /\ next_id' = next_id + Cardinality(todo)

\* deploy.py queue_apply_for_user, as called by the admin route
queue_apply_for_user(u, priority) ==
    /\ u \in users
    /\ Enqueue(ActiveAccountsOf(u), priority)
    /\ resp' = [op |-> "queue_apply_for_user", user |-> u, ok |-> TRUE,
                queued |-> Cardinality(ToQueue(ActiveAccountsOf(u))),
                again |-> (resp.op = "queue_apply_for_user" /\ resp.user = u)]
    /\ UNCHANGED <<now, fk_enforced, users, user_host_accounts, ssh_keys, next_key,
                   deployments, next_dep, rate_limits, lockouts, worker, dirty>>
    /\ UNCHANGED ext

\* deploy.py queue_apply_for_all_users
queue_apply_for_all_users(priority) ==
    /\ Enqueue(ActiveAccounts, priority)
    /\ resp' = [op |-> "queue_apply_for_all_users", user |-> "none", ok |-> TRUE,
                queued |-> Cardinality(ToQueue(ActiveAccounts)), again |-> FALSE]
    /\ UNCHANGED <<now, fk_enforced, users, user_host_accounts, ssh_keys, next_key,
                   deployments, next_dep, rate_limits, lockouts, worker, dirty>>
    /\ UNCHANGED ext

\* deploy.py queue_apply_for_user and queue_apply_for_all_users up to the
\* commit: the loop has run its existence checks and added the new rows to
\* the session, nothing is written yet
queue_apply_check(c, accounts, priority) ==
    /\ callers[c].pc = "idle"
    /\ callers' = [callers EXCEPT ![c] = [pc |-> "commit", todo |-> ToQueue(accounts),
                                          priority |-> priority]]
    /\ resp' = NoResp
    /\ UNCHANGED <<now, fk_enforced, users, user_host_accounts, ssh_keys, next_key,
                   apply_queue, next_id, deployments, next_dep, rate_limits, lockouts,
                   worker, dirty, policies, sessions, recorded, validation, pollers,
                   requests, remote>>
    /\ UNCHANGED bg

\* deploy.py queue_apply_for_user line 183, queue_apply_for_all_users line
\* 215: the commit inserts the rows the loop added
queue_apply_commit(c) ==
    /\ callers[c].pc = "commit"
    /\ next_id + Cardinality(callers[c].todo) - 1 <= MaxEntries
    /\ \E ord \in Orders(callers[c].todo) :
          apply_queue' = apply_queue \cup QueuedRows(ord, callers[c].priority)
    /\ next_id' = next_id + Cardinality(callers[c].todo)
    /\ callers' = [callers EXCEPT ![c] = IdleCaller]
    /\ resp' = [op |-> "queue_apply", user |-> c, ok |-> TRUE,
                queued |-> Cardinality(callers[c].todo), again |-> FALSE]
    /\ UNCHANGED <<now, fk_enforced, users, user_host_accounts, ssh_keys, next_key,
                   deployments, next_dep, rate_limits, lockouts, worker, dirty, policies,
                   sessions, recorded, validation, pollers, requests, remote>>
    /\ UNCHANGED bg

\* ------------------------------------------------------- binding management
\* admin.py create_user_host_account
create_user_host_account(b, status) ==
    /\ BindingUser[b] \in users
    /\ user_host_accounts[b] = "absent"
    /\ user_host_accounts' = [user_host_accounts EXCEPT ![b] = status]
    /\ resp' = NoResp
    /\ UNCHANGED <<now, fk_enforced, users, ssh_keys, next_key, apply_queue, next_id,
                   deployments, next_dep, rate_limits, lockouts, worker, dirty>>
    /\ UNCHANGED ext

\* admin.py delete_user: the ORM deletes the user's bindings, their
\* deployments and the user's keys; apply_queue rows go only when the
\* database enforces the foreign key's ON DELETE CASCADE
delete_user(u) ==
    /\ u \in users
    /\ users' = users \ {u}
    /\ user_host_accounts' =
          [b \in Bindings |-> IF BindingUser[b] = u THEN "absent" ELSE user_host_accounts[b]]
    /\ ssh_keys' = {k \in ssh_keys : k.user_id # u}
    /\ deployments' = {d \in deployments : BindingUser[d.user_host_account_id] # u}
    /\ apply_queue' = IF fk_enforced
                      THEN {e \in apply_queue : BindingUser[e.user_host_account_id] # u}
                      ELSE apply_queue
    /\ dirty' = [b \in Bindings |-> IF BindingUser[b] = u THEN FALSE ELSE dirty[b]]
    /\ resp' = NoResp
    /\ UNCHANGED <<now, fk_enforced, next_key, next_id, next_dep, rate_limits,
                   lockouts, worker>>
    /\ UNCHANGED ext

\* -------------------------------------------------------------- policy store
\* rules.get(key, default) of PolicyRules.__init__
Get(rules, key, default) == IF key \in DOMAIN rules THEN rules[key] ELSE default

\* policy.py PolicyRules.__init__: the rule-set with its defaults
PolicyRules(rules) ==
    [allowed_algorithms |-> Get(rules, "allowed_algorithms", {"ssh-ed25519", "ssh-rsa"}),
     min_key_lengths |-> Get(rules, "min_key_lengths",
                             [a \in {"ssh-rsa", "ssh-ed25519", "ecdsa-sha2-nistp256"} |->
                                 IF a = "ssh-rsa" THEN 2048 ELSE 256]),
     max_keys_per_user |-> Get(rules, "max_keys_per_user", 5),
     default_ttl_days |-> Get(rules, "default_ttl_days", 365),
     expiry_reminder_days |-> Get(rules, "expiry_reminder_days", {30, 7, 1}),
     comment_regex |-> Get(rules, "comment_regex", "None"),
     allowed_options |-> Get(rules, "allowed_options",
                             {"no-port-forwarding", "no-agent-forwarding",
                              "no-X11-forwarding", "no-pty", "restrict", "from"})]

\* policy.py get_current_policy: the rules of an active row (first() of a
\* query without ordering), the defaults when there is none
CurrentPolicies ==
    IF \E p \in policies : p.is_active
    THEN {PolicyRules(p.rules) : p \in {x \in policies : x.is_active}}
    ELSE {PolicyRules(<<>>)}

\* the JSON documents administrators send to set_policy
RuleSets ==
    {<<>>,
     [max_keys_per_user |-> 1],
     [max_keys_per_user |-> 0],
     [min_key_lengths |-> [a \in {"ssh-rsa"} |-> 4096], allowed_options |-> {"restrict"}],
     [comment_regex |-> "^ok$"],
     [comment_regex |-> "("]}

NewPolicy(rules) == [id |-> Cardinality(policies) + 1, rules |-> rules, is_active |-> TRUE]

\* set_policy that forgets to deactivate the current policy
Deactivated_Kept(P, id) == P

\* the policies table after UPDATE policies SET is_active = false WHERE id = :id
Deactivated(P, id) == {IF p.id = id THEN [p EXCEPT !.is_active = FALSE] ELSE p : p \in P}

\* policy.py set_policy, the query of lines 44-46: the row that will be
\* deactivated (0 when no row is active)
CurrentIds == IF \E p \in policies : p.is_active
              THEN {p.id : p \in {x \in policies : x.is_active}}
              ELSE {0}

\* policy.py set_policy run without interruption (one request at a time)
set_policy(a, rules) ==
    /\ sessions[a].pc = "idle"
    /\ Cardinality(policies) < MaxPolicies
    /\ \E cur \in CurrentIds :
          policies' = Deactivated(policies, cur) \cup {NewPolicy(rules)}
    /\ resp' = [op |-> "set_policy", user |-> a, ok |-> TRUE, queued |-> 0, again |-> FALSE]
    /\ UNCHANGED <<now, fk_enforced, users, user_host_accounts, ssh_keys, next_key,
                   apply_queue, next_id, deployments, next_dep, rate_limits, lockouts,
                   worker, dirty, sessions, recorded, validation, conc, bg>>

\* policy.py set_policy, lines 44-55: the session reads the active row and
\* holds the changes until the commit
set_policy_query(a, rules) ==
    /\ sessions[a].pc = "idle"
    /\ \E cur \in CurrentIds :
          sessions' = [sessions EXCEPT ![a] = [pc |-> "commit", current |-> cur, rules |-> rules]]
    /\ resp' = NoResp
    /\ UNCHANGED <<now, fk_enforced, users, user_host_accounts, ssh_keys, next_key,
                   apply_queue, next_id, deployments, next_dep, rate_limits, lockouts,
                   worker, dirty, policies, recorded, validation, conc, bg>>

\* policy.py set_policy, line 56: the commit flushes the UPDATE of the row
\* read earlier and the INSERT of the new row
set_policy_commit(a) ==
    /\ sessions[a].pc = "commit"
    /\ Cardinality(policies) < MaxPolicies
    /\ policies' = Deactivated(policies, sessions[a].current) \cup {NewPolicy(sessions[a].rules)}
    /\ sessions' = [sessions EXCEPT ![a] = IdleSession]
    /\ resp' = [op |-> "set_policy", user |-> a, ok |-> TRUE, queued |-> 0, again |-> FALSE]
    /\ UNCHANGED <<now, fk_enforced, users, user_host_accounts, ssh_keys, next_key,
                   apply_queue, next_id, deployments, next_dep, rate_limits, lockouts,
                   worker, dirty, recorded, validation, conc, bg>>

\* ---------------------------------------------------------------- validate
\* Strings are sequences of symbols: a word, or one of "," "=" ":" " ".
\* str.split(sep): the pieces between the separators, at least one piece
RECURSIVE SplitFrom(_, _, _)
SplitFrom(str, sep, piece) ==
    IF str = <<>> THEN <<piece>>
    ELSE IF Head(str) = sep THEN <<piece>> \o SplitFrom(Tail(str), sep, <<>>)
    ELSE SplitFrom(Tail(str), sep, Append(piece, Head(str)))

Split(str, sep) == SplitFrom(str, sep, <<>>)

\* str.strip(): without the blanks at both ends
RECURSIVE LStrip(_)
LStrip(str) == IF str # <<>> /\ Head(str) = " " THEN LStrip(Tail(str)) ELSE str

RECURSIVE RStrip(_)
RStrip(str) ==
    IF str # <<>> /\ str[Len(str)] = " " THEN RStrip(SubSeq(str, 1, Len(str) - 1)) ELSE str

Strip(str) == RStrip(LStrip(str))

\* policy.py line 95: option.split('=')[0].split(':')[0].strip()
OptionName(option) == Strip(Split(Split(option, "=")[1], ":")[1])

\* re.match(policy.comment_regex, comment): "matches", "differs", or
\* "re.error" for a pattern that does not compile
ReMatch(regex, comment) ==
    IF regex = "(" THEN "re.error"
    ELSE IF regex = "^ok$" /\ comment = <<"ok">> THEN "matches"
    ELSE "differs"

\* policy.py lines 91-97: one error per option that is not allowed
RECURSIVE OptionErrors(_, _)
OptionErrors(options, allowed) ==
    IF options = <<>> THEN <<>>
    ELSE (IF Len(OptionName(Head(options))) = 1 /\ OptionName(Head(options))[1] \in allowed
          THEN <<>>
          ELSE <<[check |-> 4, what |-> OptionName(Head(options))]>>)
         \o OptionErrors(Tail(options), allowed)

ActiveKeyCount(u) == Cardinality({k \in ssh_keys : k.user_id = u /\ k.status = "active"})

\* an optional string argument that is absent
None == <<"None">>

\* policy.py validate_key_against_policy under the rule-set policy
Validate(policy, algorithm, bit_length, comment, options, user_id) ==
    LET min_length == IF algorithm \in DOMAIN policy.min_key_lengths
                      THEN policy.min_key_lengths[algorithm] ELSE 0
    IN  (IF algorithm \notin policy.allowed_algorithms
         THEN <<[check |-> 1, what |-> <<algorithm>>]>> ELSE <<>>)
        \o (IF bit_length < min_length
            THEN <<[check |-> 2, what |-> <<algorithm>>]>> ELSE <<>>)
        \o (IF policy.comment_regex # "None" /\ comment \notin {None, <<>>}
               /\ ReMatch(policy.comment_regex, comment) = "differs"
            THEN <<[check |-> 3, what |-> <<policy.comment_regex>>]>> ELSE <<>>)
        \o (IF options \notin {None, <<>>}
            THEN OptionErrors([i \in DOMAIN Split(options, ",") |->
                                  Strip(Split(options, ",")[i])],
                              policy.allowed_options)
            ELSE <<>>)
        \o (IF user_id # "None" /\ ActiveKeyCount(user_id) >= policy.max_keys_per_user
            THEN <<[check |-> 5, what |-> <<user_id>>]>> ELSE <<>>)

\* the arguments callers pass
Algorithms == {"ssh-rsa", "ssh-ed25519", "ssh-dss"}
BitLengths == {256, 1024, 2048}
Comments == {None, <<>>, <<"ok">>, <<"bad">>}
OptionStrings ==
    {None, <<>>,
     <<"restrict">>,
     <<"evil">>,
     <<"from", "=", "host">>,
     <<"evil", "=", "host">>,
     <<"restrict", ",", " ", "no-pty">>,
     <<"restrict", ",", "evil">>,
     <<"evil", ",", "worse">>,
     <<"restrict", ":", "host">>,
     <<"restrict", ",">>}

\* the preview requests that can be received
Requests ==
    [called : {FALSE}, algorithm : Algorithms, bit_length : BitLengths,
     comment : Comments, options : OptionStrings, user_id : {"None", "u1"}]

\* keys.py preview_key, the call of validate_key_against_policy on the
\* request received, and its result
validate_key_against_policy ==
    /\ validation \in Requests
    /\ \E policy \in CurrentPolicies :
          validation' = [called |-> TRUE, policy |-> policy, request |-> validation,
                         errors |-> Validate(policy, validation.algorithm,
                                             validation.bit_length, validation.comment,
                                             validation.options, validation.user_id)]
    /\ resp' = NoResp
    /\ UNCHANGED <<now, fk_enforced, users, user_host_accounts, ssh_keys, next_key,
                   apply_queue, next_id, deployments, next_dep, rate_limits, lockouts,
                   worker, dirty, policies, sessions, recorded, conc, bg>>

\* ------------------------------------------------------ key-set mutations
\* what a client sends with a key: the number of lines of the public key
\* text (validate_public_key splits on any whitespace, so a text of several
\* lines passes) and the expiry it asks for
KeyRequests == [lines : 1..MaxKeyLines, expires : {"now", "default"}]

\* a one-line key with the policy's default expiry
PlainRequests == {[lines |-> 1, expires |-> "default"]}

\* policy.py get_default_expiry
DefaultExpiry(policy) == now + policy.default_ttl_days * DaySeconds

\* the SSHKey row of keys.py import_key, generate_key and rotate_key; the
\* lines of its public_key are named after the key
NewKey(u, req, policy) ==
    [id |-> next_key, user_id |-> u, status |-> "active",
     public_key |-> [i \in 1..req.lines |-> <<next_key, i>>],
     expires_at |-> IF req.expires = "now" THEN now ELSE DefaultExpiry(policy)]

Denied(op, u) == [op |-> op, user |-> u, ok |-> FALSE, queued |-> 0, again |-> FALSE]

\* the tail shared by the four handlers: the commit of the key change,
\* then queue_apply_for_user(db, user.id) with the default priority
CommitAndQueue(op, u, keys) ==
    /\ ssh_keys' = keys
    /\ Enqueue(ActiveAccountsOf(u), 0)
    /\ dirty' = [b \in Bindings |-> IF b \in ActiveAccountsOf(u) THEN TRUE ELSE dirty[b]]
    /\ resp' = [op |-> op, user |-> u, ok |-> TRUE,
                queued |-> Cardinality(ToQueue(ActiveAccountsOf(u))), again |-> FALSE]

\* the guard at the head of import_key and generate_key, and their body;
\* the key material conforms to the policy, so that only the check of the
\* number of active keys can fail
GuardedCreate(op, u, req, cap) ==
    /\ IF check_lockout(u)
       THEN /\ resp' = Denied(op, u)
            /\ UNCHANGED <<ssh_keys, next_key, apply_queue, next_id, rate_limits,
                           lockouts, dirty, recorded>>
       ELSE IF ~check_rate_limit(u, op)
       THEN /\ lockouts' = create_lockout(u, "rate_limit")
            /\ resp' = Denied(op, u)
            /\ UNCHANGED <<ssh_keys, next_key, apply_queue, next_id, rate_limits, dirty,
                           recorded>>
       ELSE \E policy \in CurrentPolicies :
              IF Validate(policy, "ssh-ed25519", 256, None, None, u) # <<>>
              THEN /\ resp' = Denied(op, u)
                   /\ UNCHANGED <<ssh_keys, next_key, apply_queue, next_id, rate_limits,
                                  lockouts, dirty, recorded>>
              ELSE /\ next_key <= cap
                   /\ CommitAndQueue(op, u, ssh_keys \cup {NewKey(u, req, policy)})
                   /\ next_key' = next_key + 1
                   /\ rate_limits' = record_operation(u, op)
                   /\ recorded' = Append(recorded, [user_id |-> u, operation_type |-> op,
                                                    at |-> now])
                   /\ UNCHANGED lockouts
    /\ UNCHANGED <<now, fk_enforced, users, user_host_accounts, deployments, next_dep,
                   worker, policies, sessions, validation, conc, bg>>

\* keys.py import_key
import_key(u, req, cap) ==
    /\ u \in users
    /\ GuardedCreate("import", u, req, cap)

\* keys.py generate_key
generate_key(u, cap) ==
    /\ u \in users
    /\ \E req \in PlainRequests : GuardedCreate("generate", u, req, cap)

\* keys.py generate_key, lines 207-221, for client r: the lockout check and
\* the rate limit check, then the key pair is being generated
generate_key_begin(r, u) ==
    /\ u \in users
    /\ requests[r].pc = "idle"
    /\ IF check_lockout(u)
       THEN /\ resp' = Denied("generate", u)
            /\ UNCHANGED <<lockouts, requests>>
       ELSE IF ~check_rate_limit(u, "generate")
       THEN /\ lockouts' = create_lockout(u, "rate_limit")
            /\ resp' = Denied("generate", u)
            /\ UNCHANGED requests
       ELSE /\ requests' = [requests EXCEPT ![r] = [pc |-> "generated", user |-> u]]
            /\ resp' = NoResp
            /\ UNCHANGED lockouts
    /\ UNCHANGED <<now, fk_enforced, users, user_host_accounts, ssh_keys, next_key,
                   apply_queue, next_id, deployments, next_dep, rate_limits, worker, dirty,
                   policies, sessions, recorded, validation, callers, pollers, remote>>
    /\ UNCHANGED bg

\* keys.py generate_key, lines 223-297, for client r: the policy check, the
\* new key, the enqueue, and at the end record_operation
generate_key_finish(r, cap) ==
    /\ requests[r].pc = "generated"
    /\ LET u == requests[r].user
       IN  \E policy \in CurrentPolicies, req \in PlainRequests :
              IF Validate(policy, "ssh-ed25519", 256, None, None, u) # <<>>
              THEN /\ resp' = Denied("generate", u)
                   /\ UNCHANGED <<ssh_keys, next_key, apply_queue, next_id, rate_limits,
                                  dirty, recorded>>
              ELSE /\ next_key <= cap
                   /\ CommitAndQueue("generate", u, ssh_keys \cup {NewKey(u, req, policy)})
                   /\ next_key' = next_key + 1
                   /\ rate_limits' = record_operation(u, "generate")
                   /\ recorded' = Append(recorded, [user_id |-> u,
                                                    operation_type |-> "generate",
                                                    at |-> now])
    /\ requests' = [requests EXCEPT ![r] = IdleClient]
    /\ UNCHANGED <<now, fk_enforced, users, user_host_accounts, deployments, next_dep,
                   lockouts, worker, policies, sessions, validation, callers, pollers,
                   remote>>
    /\ UNCHANGED bg

\* keys.py import_key, lines 112-141, for client r: the lockout check, the
\* rate limit check and the policy check, which counts the active keys
import_key_validate(r, u) ==
    /\ u \in users
    /\ requests[r].pc = "idle"
    /\ IF check_lockout(u)
       THEN /\ resp' = Denied("import", u)
            /\ UNCHANGED <<lockouts, requests>>
       ELSE IF ~check_rate_limit(u, "import")
       THEN /\ lockouts' = create_lockout(u, "rate_limit")
            /\ resp' = Denied("import", u)
            /\ UNCHANGED requests
       ELSE \E policy \in CurrentPolicies :
              IF Validate(policy, "ssh-ed25519", 256, None, None, u) # <<>>
              THEN /\ resp' = Denied("import", u)
                   /\ UNCHANGED <<lockouts, requests>>
              ELSE /\ requests' = [requests EXCEPT ![r] = [pc |-> "validated", user |-> u]]
                   /\ resp' = NoResp
                   /\ UNCHANGED lockouts
    /\ UNCHANGED <<now, fk_enforced, users, user_host_accounts, ssh_keys, next_key,
                   apply_queue, next_id, deployments, next_dep, rate_limits, worker, dirty,
                   policies, sessions, recorded, validation, callers, pollers, remote>>
    /\ UNCHANGED bg

\* keys.py import_key, lines 143-180, for client r: the expiry, the new
\* key, the enqueue, and at the end record_operation
import_key_commit(r, req, cap) ==
    /\ requests[r].pc = "validated"
    /\ next_key <= cap
    /\ LET u == requests[r].user
       IN  \E policy \in CurrentPolicies :
              /\ CommitAndQueue("import", u, ssh_keys \cup {NewKey(u, req, policy)})
              /\ rate_limits' = record_operation(u, "import")
              /\ recorded' = Append(recorded, [user_id |-> u, operation_type |-> "import",
                                               at |-> now])
    /\ next_key' = next_key + 1
    /\ requests' = [requests EXCEPT ![r] = IdleClient]
    /\ UNCHANGED <<now, fk_enforced, users, user_host_accounts, deployments, next_dep,
                   lockouts, worker, policies, sessions, validation, callers, pollers,
                   remote>>
    /\ UNCHANGED bg

\* keys.py revoke_key
revoke_key(u, kid) ==
    /\ u \in users
    /\ \E k \in ssh_keys :
          /\ k.id = kid /\ k.user_id = u
          /\ CommitAndQueue("revoke", u,
                (ssh_keys \ {k}) \cup {[k EXCEPT !.status = "revoked"]})
    /\ UNCHANGED <<now, fk_enforced, users, user_host_accounts, next_key, deployments,
                   next_dep, rate_limits, lockouts, worker>>
    /\ UNCHANGED ext

\* keys.py rotate_key
rotate_key(u, kid, req, cap) ==
    /\ u \in users
    /\ next_key <= cap
    /\ \E k \in ssh_keys, policy \in CurrentPolicies :
          /\ k.id = kid /\ k.user_id = u /\ k.status = "active"
          /\ Validate(policy, "ssh-ed25519", 256, None, None, "None") = <<>>
          /\ CommitAndQueue("rotate", u,
                (ssh_keys \ {k}) \cup {[k EXCEPT !.status = "deprecated"],
                                       NewKey(u, req, policy)})
    /\ next_key' = next_key + 1
    /\ UNCHANGED <<now, fk_enforced, users, user_host_accounts, deployments, next_dep,
                   rate_limits, lockouts, worker>>
    /\ UNCHANGED ext

\* ------------------------------------------------------------ apply worker
\* the query also picking up rows that failed for good
Due_AnyStatus == {e \in apply_queue : e.status \in {"queued", "failed"} /\ e.scheduled_at <= now}

\* the query reclaiming rows left in running
Due_Stale == {e \in apply_queue : e.status \in {"queued", "running"} /\ e.scheduled_at <= now}

\* worker.py process_queue, the query: queued and due, priority descending,
\* then creation time ascending, first row
Due == {e \in apply_queue : e.status = "queued" /\ e.scheduled_at <= now}

\* the ordering without the priority column
Before_FIFO(e, f) == e.created_at < f.created_at

Before(e, f) ==
    \/ e.priority > f.priority
    \/ e.priority = f.priority /\ e.created_at < f.created_at

NextItem == CHOOSE e \in Due : \A f \in Due \ {e} : Before(e, f)

Item == {e \in apply_queue : e.id = worker.item}

\* every retry scheduled after the same delay
Failed_NoBackoff(e, err) ==
    LET n == e.retry_count + 1
    IN  IF n >= max_retries
        THEN [e EXCEPT !.retry_count = n, !.error = err, !.status = "failed",
                       !.finished_at = now]
        ELSE [e EXCEPT !.retry_count = n, !.error = err, !.status = "queued",
                       !.scheduled_at = now + retry_delay]

\* the retry that counts the failure and forgets to queue the entry again
Failed_StillRunning(e, err) ==
    LET n == e.retry_count + 1
    IN  IF n >= max_retries
        THEN [e EXCEPT !.retry_count = n, !.error = err, !.status = "failed",
                       !.finished_at = now]
        ELSE [e EXCEPT !.retry_count = n, !.error = err,
                       !.scheduled_at = now + retry_delay * n]

\* the retry test off by one
Failed_OffByOne(e, err) ==
    LET n == e.retry_count + 1
    IN  IF n > max_retries
        THEN [e EXCEPT !.retry_count = n, !.error = err, !.status = "failed",
                       !.finished_at = now]
        ELSE [e EXCEPT !.retry_count = n, !.error = err, !.status = "queued",
                       !.scheduled_at = now + retry_delay * n]

\* worker.py process_queue, the except block: count the failure, then fail
\* the entry for good or schedule the retry
Failed(e, err) ==
    LET n == e.retry_count + 1
    IN  IF n >= max_retries
        THEN [e EXCEPT !.retry_count = n, !.error = err, !.status = "failed",
                       !.finished_at = now]
        ELSE [e EXCEPT !.retry_count = n, !.error = err, !.status = "queued",
                       !.scheduled_at = now + retry_delay * n]

\* the queue after the except block; a row that was deleted under the
\* worker cannot be written and the tick ends with the error
HandleFailure(err) ==
    apply_queue' = (apply_queue \ Item) \cup {Failed(e, err) : e \in Item}

\* the entry after the try block
Completed(e) == [e EXCEPT !.status = "completed", !.finished_at = now]

\* deploy.py apply_to_host_account, the except block: the Deployment row is
\* marked failed when the name is bound and the row can be written
DeploymentFailed(err) ==
    deployments' =
        {IF d.id = worker.dep THEN [d EXCEPT !.status = "failed", !.error = err] ELSE d
            : d \in deployments}

\* the binding of the entry being processed ("absent" when the row is gone)
ItemAccount ==
    IF Item = {} THEN "absent"
    ELSE user_host_accounts[(CHOOSE e \in Item : TRUE).user_host_account_id]

\* worker.py process_queue up to the first commit
MarkRunning ==
    /\ worker.pc = "idle"
    /\ Due # {}
    /\ apply_queue' = (apply_queue \ {NextItem}) \cup {[NextItem EXCEPT !.status = "running"]}
    /\ worker' = [IdleWorker EXCEPT !.pc = "process_apply_item", !.item = NextItem.id]
    /\ resp' = NoResp
    /\ UNCHANGED <<now, fk_enforced, users, user_host_accounts, ssh_keys, next_key,
                   next_id, deployments, next_dep, rate_limits, lockouts, dirty>>
    /\ UNCHANGED ext

\* deploy.py render_authorized_keys_for_account, the query: the active keys
\* of the owner
active_keys(b) == {k \in ssh_keys : k.user_id = BindingUser[b] /\ k.status = "active"}

\* the lines of '\n'.join(content_lines) + '\n' for the keys in the order the
\* query returned them: a key's line is its public_key text, which brings
\* its own line breaks
RECURSIVE ContentLines(_)
ContentLines(keys) ==
    IF keys = <<>> THEN <<>> ELSE Head(keys).public_key \o ContentLines(Tail(keys))

\* hashlib.sha256(content.encode()).hexdigest(), collision-free
Sha256(content) == [sha256 |-> content]

\* deploy.py render_authorized_keys_for_account: the results it can return;
\* the query has no ORDER BY, the database picks the order of the rows
render_authorized_keys_for_account(b) ==
    {[content |-> ContentLines(ord), checksum |-> Sha256(ContentLines(ord)),
      key_count |-> Cardinality(active_keys(b))] : ord \in Orders(active_keys(b))}

\* worker.py process_apply_item up to the call of apply_to_host_account
ProcessApplyItem ==
    /\ worker.pc = "process_apply_item"
    /\ IF Item = {}
       THEN /\ worker' = IdleWorker
            /\ UNCHANGED <<apply_queue, dirty>>
       ELSE LET b == (CHOOSE e \in Item : TRUE).user_host_account_id
            IN  IF user_host_accounts[b] = "absent"
                THEN /\ HandleFailure("UserHostAccount not found")
                     /\ worker' = IdleWorker
                     /\ UNCHANGED dirty
                ELSE IF user_host_accounts[b] # "active"
                THEN /\ HandleFailure("UserHostAccount is not active")
                     /\ worker' = IdleWorker
                     /\ UNCHANGED dirty
                ELSE /\ \E r \in render_authorized_keys_for_account(b) :
                          worker' = [worker EXCEPT !.pc = "connect",
                                                   !.content = r.content,
                                                   !.key_count = r.key_count]
                     /\ dirty' = [dirty EXCEPT ![b] = FALSE]
                     /\ UNCHANGED apply_queue
    /\ resp' = NoResp
    /\ UNCHANGED <<now, fk_enforced, users, user_host_accounts, ssh_keys, next_key,
                   next_id, deployments, next_dep, rate_limits, lockouts>>
    /\ UNCHANGED ext

\* deploy.py apply_to_host_account, lines 64-76 raising: the except block
\* finds no Deployment bound, the worker's except block handles the entry
ConnectFail ==
    /\ worker.pc = "connect"
    /\ HandleFailure("Apply failed: connect")
    /\ worker' = IdleWorker
    /\ resp' = NoResp
    /\ UNCHANGED <<now, fk_enforced, users, user_host_accounts, ssh_keys, next_key,
                   next_id, deployments, next_dep, rate_limits, lockouts, dirty>>
    /\ UNCHANGED ext

\* deploy.py apply_to_host_account, lines 64-90: connected, the Deployment row
\* is inserted with status running (the insert is refused when the binding
\* is gone and the database enforces the foreign key)
ConnectOk ==
    /\ worker.pc = "connect"
    /\ IF ItemAccount = "absent" /\ (fk_enforced \/ Item = {})
       THEN /\ HandleFailure("Apply failed: integrity")
            /\ worker' = IdleWorker
            /\ UNCHANGED <<deployments, next_dep>>
       ELSE /\ next_dep <= MaxDeployments
            /\ deployments' = deployments \cup
                  {[id |-> next_dep,
                    user_host_account_id |-> (CHOOSE e \in Item : TRUE).user_host_account_id,
                    status |-> "running", checksum |-> Sha256(worker.content),
                    key_count |-> worker.key_count, error |-> ""]}
            /\ next_dep' = next_dep + 1
            /\ worker' = [worker EXCEPT !.pc = "write", !.dep = next_dep]
            /\ UNCHANGED apply_queue
    /\ resp' = NoResp
    /\ UNCHANGED <<now, fk_enforced, users, user_host_accounts, ssh_keys, next_key,
                   next_id, rate_limits, lockouts, dirty>>
    /\ UNCHANGED ext

\* the stages of the remote update that can raise
RemoteStages == {"mkdir", "write"}

\* deploy.py apply_to_host_account, lines 92-116 raising at a stage
RemoteWriteFail(stage) ==
    /\ worker.pc = "write"
    /\ DeploymentFailed(stage)
    /\ HandleFailure("Apply failed: " \o stage)
    /\ worker' = IdleWorker
    /\ resp' = NoResp
    /\ UNCHANGED <<now, fk_enforced, users, user_host_accounts, ssh_keys, next_key,
                   next_id, next_dep, rate_limits, lockouts, dirty>>
    /\ UNCHANGED ext

\* deploy.py apply_to_host_account, lines 92-121: directory, temporary file,
\* move, then the Deployment row becomes success (a binding deleted in the
\* meantime cannot be reloaded and the call fails)
RemoteWriteOk ==
    /\ worker.pc = "write"
    /\ IF ItemAccount = "absent"
       THEN /\ DeploymentFailed("deleted")
            /\ HandleFailure("Apply failed: deleted")
            /\ worker' = IdleWorker
       ELSE /\ deployments' =
                  {IF d.id = worker.dep THEN [d EXCEPT !.status = "success"] ELSE d
                      : d \in deployments}
            /\ worker' = [worker EXCEPT !.pc = "close"]
            /\ UNCHANGED apply_queue
    /\ resp' = NoResp
    /\ UNCHANGED <<now, fk_enforced, users, user_host_accounts, ssh_keys, next_key,
                   next_id, next_dep, rate_limits, lockouts, dirty>>
    /\ UNCHANGED ext

\* deploy.py apply_to_host_account, lines 123-132 raising after the row was
\* committed as success
CloseFail ==
    /\ worker.pc = "close"
    /\ DeploymentFailed("close")
    /\ HandleFailure("Apply failed: close")
    /\ worker' = IdleWorker
    /\ resp' = NoResp
    /\ UNCHANGED <<now, fk_enforced, users, user_host_accounts, ssh_keys, next_key,
                   next_id, next_dep, rate_limits, lockouts, dirty>>
    /\ UNCHANGED ext

\* deploy.py apply_to_host_account, lines 123-134, and the end of the try
\* block of process_queue: close the session, stamp the keys, return True,
\* mark the entry completed
CloseOk ==
    /\ worker.pc = "close"
    /\ IF ItemAccount = "absent"
       THEN /\ DeploymentFailed("deleted")
            /\ HandleFailure("Apply failed: deleted")
       ELSE /\ apply_queue' = (apply_queue \ Item) \cup {Completed(e) : e \in Item}
            /\ UNCHANGED deployments
    /\ worker' = IdleWorker
    /\ resp' = NoResp
    /\ UNCHANGED <<now, fk_enforced, users, user_host_accounts, ssh_keys, next_key,
                   next_id, next_dep, rate_limits, lockouts, dirty>>
    /\ UNCHANGED ext

\* ------------------------------------------- two apply-worker instances
\* worker.py process_queue, lines 43-53, run by instance w: the query
\* returns the first queued and due row, nothing is written
process_queue_select(w) ==
    /\ pollers[w].pc = "idle"
    /\ Due # {}
    /\ pollers' = [pollers EXCEPT ![w] = [pc |-> "selected", item |-> NextItem.id]]
    /\ resp' = NoResp
    /\ UNCHANGED <<now, fk_enforced, users, user_host_accounts, ssh_keys, next_key,
                   apply_queue, next_id, deployments, next_dep, rate_limits, lockouts,
                   worker, dirty, policies, sessions, recorded, validation, callers,
                   requests, remote>>
    /\ UNCHANGED bg

\* an UPDATE that looks at the status again
MarkedRows_IfQueued(id) == {e \in apply_queue : e.id = id /\ e.status = "queued"}

\* the rows written by the commit of line 58: the UPDATE the session emits
\* for the loaded row names it by its primary key only
MarkedRows(id) == {e \in apply_queue : e.id = id}

\* worker.py process_queue, lines 55-58, run by instance w; when the UPDATE
\* matches no row the commit raises and the poll ends
process_queue_mark(w) ==
    /\ pollers[w].pc = "selected"
    /\ IF MarkedRows(pollers[w].item) = {}
       THEN /\ pollers' = [pollers EXCEPT ![w] = IdlePoller]
            /\ UNCHANGED apply_queue
       ELSE /\ apply_queue' = (apply_queue \ MarkedRows(pollers[w].item)) \cup
                  {[e EXCEPT !.status = "running"] : e \in MarkedRows(pollers[w].item)}
            /\ pollers' = [pollers EXCEPT ![w].pc = "process_apply_item"]
    /\ resp' = NoResp
    /\ UNCHANGED <<now, fk_enforced, users, user_host_accounts, ssh_keys, next_key,
                   next_id, deployments, next_dep, rate_limits, lockouts,
                   worker, dirty, policies, sessions, recorded, validation, callers,
                   requests, remote>>
    /\ UNCHANGED bg

\* worker.py process_queue, lines 60-66, run by instance w, with a
\* deployment that succeeds: process_apply_item renders the file,
\* apply_to_host_account records the Deployment, the entry is completed
process_queue_run(w) ==
    /\ pollers[w].pc = "process_apply_item"
    /\ next_dep <= MaxDeployments
    /\ \E e \in apply_queue :
          /\ e.id = pollers[w].item
          /\ user_host_accounts[e.user_host_account_id] = "active"
          /\ \E r \in render_authorized_keys_for_account(e.user_host_account_id) :
                deployments' = deployments \cup
                    {[id |-> next_dep, user_host_account_id |-> e.user_host_account_id,
                      status |-> "success", checksum |-> r.checksum,
                      key_count |-> r.key_count, error |-> ""]}
          /\ apply_queue' = (apply_queue \ {e}) \cup {Completed(e)}
    /\ next_dep' = next_dep + 1
    /\ pollers' = [pollers EXCEPT ![w] = IdlePoller]
    /\ resp' = NoResp
    /\ UNCHANGED <<now, fk_enforced, users, user_host_accounts, ssh_keys, next_key,
                   next_id, rate_limits, lockouts, worker, dirty, policies, sessions,
                   recorded, validation, callers, requests, remote>>
    /\ UNCHANGED bg

\* the binding whose file the deployment in progress writes
ItemBinding == (CHOOSE e \in Item : TRUE).user_host_account_id

\* deploy.py apply_to_host_account, line 107, writing the live file in place
tmp_path_InPlace == "authorized_keys"

\* deploy.py apply_to_host_account, line 107: remote_file + ".tmp." + generation
tmp_path == "authorized_keys.tmp"

\* deploy.py apply_to_host_account, lines 106-109: the rendered content is
\* written to the temporary file
SftpWrite ==
    /\ worker.pc = "write"
    /\ Item # {}
    /\ remote' = [remote EXCEPT ![ItemBinding][tmp_path] =
                      [exists |-> TRUE, content |-> worker.content]]
    /\ worker' = [worker EXCEPT !.pc = "move"]
    /\ resp' = NoResp
    /\ UNCHANGED <<now, fk_enforced, users, user_host_accounts, ssh_keys, next_key,
                   apply_queue, next_id, deployments, next_dep, rate_limits, lockouts,
                   dirty, policies, sessions, recorded, validation, callers, pollers,
                   requests>>
    /\ UNCHANGED bg

\* deploy.py apply_to_host_account, lines 106-109 raising after n lines were
\* written: the temporary file keeps them, the except block runs
SftpWriteFail(n) ==
    /\ worker.pc = "write"
    /\ Item # {}
    /\ n <= Len(worker.content)
    /\ remote' = [remote EXCEPT ![ItemBinding][tmp_path] =
                      [exists |-> TRUE, content |-> SubSeq(worker.content, 1, n)]]
    /\ DeploymentFailed("write")
    /\ HandleFailure("Apply failed: write")
    /\ worker' = IdleWorker
    /\ resp' = NoResp
    /\ UNCHANGED <<now, fk_enforced, users, user_host_accounts, ssh_keys, next_key,
                   next_id, next_dep, rate_limits, lockouts, dirty, policies, sessions,
                   recorded, validation, callers, pollers, requests>>
    /\ UNCHANGED bg

\* deploy.py apply_to_host_account, lines 111-121: exec_command starts
\* "chown && chmod && mv" on the host and returns; its exit status is never
\* read, so the row becomes success whether the rename took place (moved) or
\* a command of the chain failed
ExecMove(moved) ==
    /\ worker.pc = "move"
    /\ Item # {}
    /\ remote' = IF moved
                 THEN [remote EXCEPT ![ItemBinding] =
                          [p \in Paths |->
                              IF p = "authorized_keys" THEN remote[ItemBinding][tmp_path]
                              ELSE NoFile]]
                 ELSE remote
    /\ deployments' =
          {IF d.id = worker.dep THEN [d EXCEPT !.status = "success"] ELSE d
              : d \in deployments}
    /\ worker' = [worker EXCEPT !.pc = "close"]
    /\ resp' = NoResp
    /\ UNCHANGED <<now, fk_enforced, users, user_host_accounts, ssh_keys, next_key,
                   apply_queue, next_id, next_dep, rate_limits, lockouts, dirty,
                   policies, sessions, recorded, validation, callers, pollers, requests>>
    /\ UNCHANGED bg

\* everything but the worker loop, the queue and the worker's locals
AroundLoop ==
    <<now, fk_enforced, users, user_host_accounts, ssh_keys, next_key, next_id,
      deployments, next_dep, rate_limits, lockouts, dirty, policies, sessions,
      recorded, validation, conc, notification_queue, next_note, security_alerts>>

\* a loop that does not read the flag
Continue_Always == TRUE

\* worker.py ApplyWorker.start, line 26: while self.running
Continue == loop.running

\* worker.py ApplyWorker.start, lines 21-24: the task runs for the first
\* time and sets the flag
start ==
    /\ loop.pc = "created"
    /\ loop' = [loop EXCEPT !.running = TRUE, !.pc = "while"]
    /\ resp' = NoResp
    /\ UNCHANGED <<apply_queue, worker>>
    /\ UNCHANGED AroundLoop

\* worker.py ApplyWorker.start, lines 26-28, with process_queue up to its
\* first commit: the loop ends when the flag is down; without a due entry
\* process_queue returns at line 53 and the loop sleeps; otherwise the entry
\* is marked running
start_while ==
    /\ loop.pc = "while"
    /\ worker.pc = "idle"
    /\ IF ~Continue
       THEN /\ loop' = [loop EXCEPT !.pc = "exited"]
            /\ UNCHANGED <<apply_queue, worker>>
       ELSE IF Due = {}
       THEN /\ loop' = [loop EXCEPT !.pc = "sleep"]
            /\ UNCHANGED <<apply_queue, worker>>
       ELSE /\ apply_queue' = (apply_queue \ {NextItem})
                                  \cup {[NextItem EXCEPT !.status = "running"]}
            /\ worker' = [IdleWorker EXCEPT !.pc = "process_apply_item",
                                            !.item = NextItem.id]
            /\ loop' = [loop EXCEPT !.pc = "process_queue"]
    /\ resp' = NoResp
    /\ UNCHANGED AroundLoop

\* worker.py ApplyWorker.start, line 29: process_queue has returned, the
\* loop sleeps
start_sleep ==
    /\ loop.pc = "process_queue"
    /\ worker.pc = "idle"
    /\ loop' = [loop EXCEPT !.pc = "sleep"]
    /\ resp' = NoResp
    /\ UNCHANGED <<apply_queue, worker>>
    /\ UNCHANGED AroundLoop

\* worker.py ApplyWorker.start, line 29: asyncio.sleep(5) is over
start_wake ==
    /\ loop.pc = "sleep"
    /\ loop' = [loop EXCEPT !.pc = "while"]
    /\ resp' = NoResp
    /\ UNCHANGED <<apply_queue, worker>>
    /\ UNCHANGED AroundLoop

\* worker.py ApplyWorker.stop: the flag goes down, nothing else; main.py
\* calls it at shutdown, after the task of start() has run
stop ==
    /\ loop.pc # "created"
    /\ loop' = [loop EXCEPT !.running = FALSE,
                            !.during = IF loop.running THEN worker.item ELSE @]
    /\ resp' = NoResp
    /\ UNCHANGED <<apply_queue, worker>>
    /\ UNCHANGED AroundLoop

\* the worker process dies between the commit of line 58 and the commit of
\* line 66 or 86, and is started again: its locals are gone, the database
\* keeps what was committed
Crash ==
    /\ worker.pc # "idle"
    /\ worker' = IdleWorker
    /\ resp' = NoResp
    /\ UNCHANGED <<now, fk_enforced, users, user_host_accounts, ssh_keys, next_key,
                   apply_queue, next_id, deployments, next_dep, rate_limits, lockouts,
                   dirty>>
    /\ UNCHANGED ext

\* worker.py ApplyWorker.start, lines 26-29: while no queued entry is due,
\* process_queue returns at line 53 and the loop sleeps and polls again,
\* until the clock reaches the earliest scheduled_at
Sleep ==
    /\ worker.pc = "idle"
    /\ Due = {}
    /\ \E e \in apply_queue : e.status = "queued"
    /\ now' = CHOOSE t \in {e.scheduled_at : e \in {f \in apply_queue : f.status = "queued"}} :
                  \A e \in apply_queue : e.status = "queued" => t <= e.scheduled_at
    /\ resp' = NoResp
    /\ UNCHANGED <<fk_enforced, users, user_host_accounts, ssh_keys, next_key,
                   apply_queue, next_id, deployments, next_dep, rate_limits,
                   lockouts, worker, dirty>>
    /\ UNCHANGED ext

\* ------------------------------------------------------------------- clock
\* time passes, up to the horizon of the specification
Tick(horizon) ==
    /\ now + TickStep <= horizon
    /\ now' = now + TickStep
    /\ resp' = NoResp
    /\ UNCHANGED <<fk_enforced, users, user_host_accounts, ssh_keys, next_key,
                   apply_queue, next_id, deployments, next_dep, rate_limits,
                   lockouts, worker, dirty>>
    /\ UNCHANGED ext

\* time passes in steps of the given length
Advance(step, horizon) ==
    /\ now + step <= horizon
    /\ now' = now + step
    /\ resp' = NoResp
    /\ UNCHANGED <<fk_enforced, users, user_host_accounts, ssh_keys, next_key,
                   apply_queue, next_id, deployments, next_dep, rate_limits,
                   lockouts, worker, dirty>>
    /\ UNCHANGED ext

\* models.py ApplyQueue, the check constraint on status: 'cancelled' is a
\* status the table accepts and no code of the application writes; a row is
\* cancelled from outside, with or without a finished_at
cancel(id, finished) ==
    /\ \E e \in apply_queue :
          /\ e.id = id
          /\ e.status \in {"queued", "running"}
          /\ apply_queue' = (apply_queue \ {e})
                \cup {[e EXCEPT !.status = "cancelled",
                                !.finished_at = IF finished THEN now ELSE -1]}
    /\ resp' = NoResp
    /\ UNCHANGED <<now, fk_enforced, users, user_host_accounts, ssh_keys, next_key,
                   next_id, deployments, next_dep, rate_limits, lockouts, worker, dirty>>
    /\ UNCHANGED ext

\* ------------------------------------------------------------- maintenance
\* an expiry that does not look at the status
expire_old_keys_AnyStatus ==
    {IF k.expires_at <= now THEN [k EXCEPT !.status = "expired"] ELSE k : k \in ssh_keys}

\* policy.py expire_old_keys: active keys whose expiry has come
expire_old_keys ==
    {IF k.status = "active" /\ k.expires_at <= now THEN [k EXCEPT !.status = "expired"] ELSE k
        : k \in ssh_keys}

\* a sweep that keeps nothing beyond the moment a row finished
old_queue_items_NoRetention ==
    {e \in apply_queue : e.status \in {"completed", "failed"}
                         /\ e.finished_at # -1 /\ e.finished_at < now}

\* worker.py run_maintenance_tasks, step 3: the rows the sweep deletes
\* (finished_at is -1 for NULL, which no comparison selects)
old_queue_items ==
    {e \in apply_queue : e.status \in {"completed", "failed"}
                         /\ e.finished_at # -1
                         /\ e.finished_at < now - RetentionDays * DaySeconds}

\* security.py cleanup_old_records, the rate_limits table
cleanup_rate_limits ==
    {r \in rate_limits : ~(r.created_at < now - RetentionDays * DaySeconds)}

\* security.py cleanup_old_records, the security_lockouts table: lockouts
\* that ran out become inactive, then old rows are deleted
cleanup_lockouts ==
    {l \in {IF x.locked_until < now /\ x.is_active THEN [x EXCEPT !.is_active = FALSE] ELSE x
               : x \in lockouts}
        : ~(l.created_at < now - RetentionDays * DaySeconds)}

\* policy.py get_keys_needing_expiry_reminders: the active keys that expire
\* within one of the policy's reminder offsets and have not expired
get_keys_needing_expiry_reminders(keys, policy) ==
    {k \in keys : /\ k.status = "active"
                  /\ k.expires_at > now
                  /\ \E d \in policy.expiry_reminder_days :
                        k.expires_at <= now + d * DaySeconds}

\* worker.py run_maintenance_tasks, step 2, the query for a reminder of the
\* last day. The session is made with autoflush=False (core/db.py), so the
\* query reads the rows of the table and none of the notifications the loop
\* has added to the session
recent_notification(u) ==
    \E n \in notification_queue : /\ n.user_id = u
                                  /\ n.notification_type = "expiry_reminder"
                                  /\ n.created_at >= now - DaySeconds

\* worker.py run_maintenance_tasks, step 2: the notifications the loop adds,
\* one for each key of the list whose query finds nothing
expiry_reminders(keys, policy) ==
    {[id |-> <<next_note, k.id>>, user_id |-> k.user_id,
      notification_type |-> "expiry_reminder", status |-> "queued", created_at |-> now]
        : k \in {x \in get_keys_needing_expiry_reminders(keys, policy) :
                    ~recent_notification(x.user_id)}}

\* security.py detect_unusual_activity, the two counts of rate_limits rows
\* of a kind: those created in the last hour, and those created in the day
\* before that hour
recent_count(op) ==
    Cardinality({r \in rate_limits : r.operation_type = op
                                     /\ r.created_at >= now - HourSeconds})

baseline_count(op) ==
    Cardinality({r \in rate_limits : /\ r.operation_type = op
                                     /\ r.created_at >= now - DaySeconds
                                     /\ r.created_at < now - HourSeconds})

\* security.py detect_unusual_activity: the alerts of the scan, which are
\* also what it returns. recent / (baseline / 23) > 3 in whole numbers
unusual_activity ==
    {a \in {[type |-> "spike_apply", severity |-> "medium"],
            [type |-> "spike_revoke", severity |-> "high"]} :
        \/ /\ a.type = "spike_apply"
           /\ recent_count("apply") > 0
           /\ baseline_count("apply") > 0
           /\ BASELINE_HOURS * recent_count("apply") > SPIKE_RATIO * baseline_count("apply")
        \/ /\ a.type = "spike_revoke"
           /\ recent_count("revoke") > REVOKE_SPIKE}

\* a lookup that finds no alert
existing_alert_None(type) == FALSE

\* security.py detect_unusual_activity: the unacknowledged alert of the type
\* created in the last hour
existing_alert(type) ==
    \E a \in security_alerts : /\ a.alert_type = type
                               /\ a.created_at >= now - HourSeconds
                               /\ ~a.acknowledged

\* security.py detect_unusual_activity: the rows it stores
new_alerts ==
    {[id |-> <<Cardinality(security_alerts) + 1, a.type>>, alert_type |-> a.type,
      severity |-> a.severity, acknowledged |-> FALSE, created_at |-> now]
        : a \in {x \in unusual_activity : ~existing_alert(x.type)}}

\* worker.py run_maintenance_tasks, step 5: an alert of severity high or
\* critical makes the run add a notification of type 'security_alert', which
\* the check constraint of notification_queue refuses when it is flushed
refused_notification == \E a \in unusual_activity : a.severity \in {"high", "critical"}

\* worker.py run_maintenance_tasks. The reminders of step 2 and the
\* deletions of step 3 are committed by the commit of the scan of step 5,
\* which also stores the alerts. When the run has added a notification the
\* table refuses, the commit of step 6 raises on it and its work is rolled
\* back, and the last commit raises (generation requests are not part of
\* the state)
run_maintenance_tasks ==
    /\ ssh_keys' = expire_old_keys
    /\ \E policy \in CurrentPolicies :
          LET reminders == expiry_reminders(expire_old_keys, policy)
          IN  /\ notification_queue' = notification_queue \cup reminders
              /\ next_note' = IF reminders = {} THEN next_note ELSE next_note + 1
    /\ apply_queue' = apply_queue \ old_queue_items
    /\ security_alerts' = security_alerts \cup new_alerts
    /\ rate_limits' = IF refused_notification THEN rate_limits ELSE cleanup_rate_limits
    /\ lockouts' = IF refused_notification THEN lockouts ELSE cleanup_lockouts
    /\ resp' = [op |-> "run_maintenance_tasks", user |-> "none",
                ok |-> ~refused_notification, queued |-> 0, again |-> FALSE]
    /\ UNCHANGED <<now, fk_enforced, users, user_host_accounts, next_key, next_id,
                   deployments, next_dep, worker, dirty>>
    /\ UNCHANGED <<policies, sessions, recorded, validation, conc, loop>>

\* the steps of run_maintenance_tasks: 1 expire keys, 2 expiry reminders,
\* 3 old queue entries, 4 old generation requests, 5 security scan,
\* 6 security cleanup
MaintenanceSteps == 1..6

\* worker.py run_maintenance_tasks when the given step raises at its first
\* statement. Steps 1 to 4 are not inside a try block: the exception leaves
\* the function, the steps after it do not run, and the finally block closes
\* the session, which rolls back the reminders of step 2 and the deletions
\* of step 3 (expire_old_keys has committed its own work). Steps 5 and 6 are
\* inside try blocks: the exception is logged, the run goes on and commits.
\* When step 5 raises there is no alert; when step 6 raises the scan has
\* committed, and the last commit raises on a notification the table refuses
run_maintenance_tasks_raising(step) ==
    /\ ssh_keys' = IF step > 1 THEN expire_old_keys ELSE ssh_keys
    /\ \E policy \in CurrentPolicies :
          LET reminders == IF step > 4 THEN expiry_reminders(expire_old_keys, policy) ELSE {}
          IN  /\ notification_queue' = notification_queue \cup reminders
              /\ next_note' = IF reminders = {} THEN next_note ELSE next_note + 1
    /\ apply_queue' = IF step > 4 THEN apply_queue \ old_queue_items ELSE apply_queue
    /\ security_alerts' = IF step = 6 THEN security_alerts \cup new_alerts ELSE security_alerts
    /\ rate_limits' = IF step = 5 THEN cleanup_rate_limits ELSE rate_limits
    /\ lockouts' = IF step = 5 THEN cleanup_lockouts ELSE lockouts
    /\ resp' = [op |-> "run_maintenance_tasks", user |-> "none",
                ok |-> step = 5 \/ (step = 6 /\ ~refused_notification),
                queued |-> 0, again |-> FALSE]
    /\ UNCHANGED <<now, fk_enforced, users, user_host_accounts, next_key, next_id,
                   deployments, next_dep, worker, dirty>>
    /\ UNCHANGED <<policies, sessions, recorded, validation, conc, loop>>

\* security.py record_operation, as SecurityService offers it to its
\* callers: RATE_LIMITS has the kinds 'apply' and 'revoke', which the scan
\* counts, and the routers of the application record 'import', 'generate'
\* and 'download' only
RecordOperation(u, op) ==
    /\ u \in users
    /\ rate_limits' = record_operation(u, op)
    /\ resp' = NoResp
    /\ UNCHANGED <<now, fk_enforced, users, user_host_accounts, ssh_keys, next_key,
                   apply_queue, next_id, deployments, next_dep, lockouts, worker, dirty>>
    /\ UNCHANGED ext

\* admin.py detect_unusual_activity: an administrator runs the scan
detect_unusual_activity ==
    /\ security_alerts' = security_alerts \cup new_alerts
    /\ resp' = [op |-> "detect_unusual_activity", user |-> "none", ok |-> TRUE,
                queued |-> Cardinality(unusual_activity), again |-> FALSE]
    /\ UNCHANGED <<now, fk_enforced, users, user_host_accounts, ssh_keys, next_key,
                   apply_queue, next_id, deployments, next_dep, rate_limits, lockouts,
                   worker, dirty>>
    /\ UNCHANGED <<policies, sessions, recorded, validation, conc, loop,
                   notification_queue, next_note>>

\* admin.py acknowledge_security_alert and security.py acknowledge_alert
acknowledge_alert(id) ==
    /\ security_alerts' = {IF a.id = id THEN [a EXCEPT !.acknowledged = TRUE] ELSE a
                              : a \in security_alerts}
    /\ resp' = [op |-> "acknowledge_alert", user |-> "none", ok |-> TRUE,
                queued |-> 0, again |-> FALSE]
    /\ UNCHANGED <<now, fk_enforced, users, user_host_accounts, ssh_keys, next_key,
                   apply_queue, next_id, deployments, next_dep, rate_limits, lockouts,
                   worker, dirty>>
    /\ UNCHANGED <<policies, sessions, recorded, validation, conc, loop,
                   notification_queue, next_note>>

\* admin.py emergency_revoke_by_fingerprint: the fingerprint is that of key
\* kid (import_key refuses a second key with the same fingerprint); 404 when
\* no active or deprecated key has it
emergency_revoke_by_fingerprint(kid) ==
    /\ LET keys == {k \in ssh_keys : k.id = kid /\ k.status \in {"active", "deprecated"}}
       IN  IF keys = {}
           THEN /\ resp' = [op |-> "emergency_revoke", user |-> "none", ok |-> FALSE,
                            queued |-> 0, again |-> FALSE]
                /\ UNCHANGED ssh_keys
           ELSE /\ ssh_keys' = (ssh_keys \ keys) \cup
                                {[k EXCEPT !.status = "revoked"] : k \in keys}
                /\ resp' = [op |-> "emergency_revoke", user |-> "none", ok |-> TRUE,
                            queued |-> 0, again |-> FALSE]
    /\ UNCHANGED <<now, fk_enforced, users, user_host_accounts, next_key, apply_queue,
                   next_id, deployments, next_dep, rate_limits, lockouts, worker, dirty>>
    /\ UNCHANGED ext

\* ---------------------------------------------------------- specifications
Next ==
    \/ \E b \in Bindings, st \in {"active", "disabled"} : create_user_host_account(b, st)
    \/ \E u \in Users : queue_apply_for_user(u, 0)
    \/ queue_apply_for_all_users(0)
    \/ \E u \in Users : delete_user(u)
    \/ MarkRunning
    \/ ProcessApplyItem
    \/ ConnectFail
    \/ ConnectOk
    \/ RemoteWriteOk
    \/ CloseOk
    \/ Tick(MaxTime)

Spec == Init /\ [][Next]_vars

InitOrder ==
    /\ NoPolicies
    /\ NoRequest
    /\ Database(Users, [b \in Bindings |-> IF b = "b2" THEN "absent" ELSE "active"], {TRUE})

NextOrder ==
    \/ \E u \in Users, p \in Priorities : queue_apply_for_user(u, p)
    \/ MarkRunning
    \/ ProcessApplyItem
    \/ ConnectFail
    \/ ConnectOk
    \/ RemoteWriteOk
    \/ CloseOk
    \/ Tick(MaxOrderTime)

SpecOrder == InitOrder /\ [][NextOrder]_vars

InitKeys ==
    /\ NoPolicies
    /\ NoRequest
    /\ \E st \in {"active", "disabled"} :
        Database({"u1"}, [b \in Bindings |->
                            IF b = "b1" THEN "active" ELSE IF b = "b2" THEN st ELSE "absent"],
                 {TRUE})

NextKeys ==
    \/ \E u \in Users, req \in PlainRequests : import_key(u, req, MaxKeys)
    \/ \E u \in Users : generate_key(u, MaxKeys)
    \/ \E u \in Users, kid \in 1..MaxKeys : revoke_key(u, kid)
    \/ \E u \in Users, kid \in 1..MaxKeys, req \in PlainRequests : rotate_key(u, kid, req, MaxKeys)
    \/ MarkRunning
    \/ ProcessApplyItem
    \/ ConnectFail
    \/ ConnectOk
    \/ RemoteWriteOk
    \/ CloseOk

SpecKeys == InitKeys /\ [][NextKeys]_vars

InitDeploy ==
    /\ NoPolicies
    /\ NoRequest
    /\ Database({"u2"}, [b \in Bindings |-> IF b = "b3" THEN "active" ELSE "absent"], BOOLEAN)

NextDeploy ==
    \/ \E u \in Users : queue_apply_for_user(u, 0)
    \/ \E u \in Users : delete_user(u)
    \/ MarkRunning
    \/ ProcessApplyItem
    \/ ConnectFail
    \/ ConnectOk
    \/ \E stage \in RemoteStages : RemoteWriteFail(stage)
    \/ RemoteWriteOk
    \/ CloseFail
    \/ CloseOk
    \/ Tick(MaxOrderTime)

SpecDeploy == InitDeploy /\ [][NextDeploy]_vars
\* the policies tables set_policy can find: any number of rows, at most one
\* of them active
StoredPolicies ==
    {{}} \cup
    {{[id |-> 1, rules |-> r, is_active |-> act]} : r \in RuleSets, act \in BOOLEAN} \cup
    {{[id |-> 1, rules |-> <<>>, is_active |-> a1], [id |-> 2, rules |-> r, is_active |-> a2]}
        : r \in RuleSets, a1 \in BOOLEAN, a2 \in {FALSE}} \cup
    {{[id |-> 1, rules |-> <<>>, is_active |-> FALSE], [id |-> 2, rules |-> r, is_active |-> TRUE]}
        : r \in RuleSets}

InitPolicy ==
    /\ policies \in StoredPolicies
    /\ NoRequest
    /\ Database({"u1"}, NoAccounts, {TRUE})

NextPolicy ==
    \/ \E a \in Admins, rules \in RuleSets : set_policy(a, rules)

SpecPolicy == InitPolicy /\ [][NextPolicy]_vars

\* two of the documents are enough for the race
RaceRuleSets == {<<>>, [max_keys_per_user |-> 1]}

NextPolicyRace ==
    \/ \E a \in Admins, rules \in RaceRuleSets : set_policy_query(a, rules)
    \/ \E a \in Admins : set_policy_commit(a)

SpecPolicyRace == InitPolicy /\ [][NextPolicyRace]_vars

InitValidate ==
    /\ policies \in StoredPolicies
    /\ validation \in Requests
    /\ Database({"u1"}, NoAccounts, {TRUE})

NextValidate ==
    \/ validate_key_against_policy

SpecValidate == InitValidate /\ [][NextValidate]_vars

InitRate ==
    /\ NoPolicies
    /\ NoRequest
    /\ Database({"u1"}, NoAccounts, {TRUE})

NextRate ==
    \/ \E u \in Users : generate_key(u, MaxRateKeys)
    \/ \E u \in Users : revoke_key(u, 1)
    \/ run_maintenance_tasks
    \/ Advance(RateStep, MaxRateTime)

SpecRate == InitRate /\ [][NextRate]_vars

\* one identity with one active binding; keys are imported and revoked, an
\* administrator queues applies, and every apply reaches its host
InitRender ==
    /\ NoPolicies
    /\ NoRequest
    /\ Database({"u1"}, [b \in Bindings |-> IF b = "b1" THEN "active" ELSE "absent"], {TRUE})

NextRender ==
    \/ \E u \in Users, req \in KeyRequests : import_key(u, req, MaxKeys)
    \/ \E u \in Users, kid \in 1..MaxKeys : revoke_key(u, kid)
    \/ \E u \in Users : queue_apply_for_user(u, 0)
    \/ MarkRunning
    \/ ProcessApplyItem
    \/ ConnectOk
    \/ RemoteWriteOk
    \/ CloseOk

SpecRender == InitRender /\ [][NextRender]_vars

\* one identity with one active binding; applies are queued and processed
\* over days, connections can fail, and the maintenance sweep runs
InitMaint ==
    /\ NoPolicies
    /\ NoRequest
    /\ Database({"u1"}, [b \in Bindings |-> IF b = "b1" THEN "active" ELSE "absent"], {TRUE})

NextMaint ==
    \/ \E u \in Users : queue_apply_for_user(u, 0)
    \/ MarkRunning
    \/ ProcessApplyItem
    \/ ConnectFail
    \/ ConnectOk
    \/ RemoteWriteOk
    \/ CloseOk
    \/ run_maintenance_tasks
    \/ Advance(MaintStepDays * DaySeconds, MaxMaintDays * DaySeconds)

SpecMaint == InitMaint /\ [][NextMaint]_vars

\* one identity with one active binding; one-line keys are imported with an
\* expiry and revoked by an administrator, applies are processed, and the
\* maintenance sweep runs, with or without a step raising
InitSweep ==
    /\ NoPolicies
    /\ NoRequest
    /\ Database({"u1"}, [b \in Bindings |-> IF b = "b1" THEN "active" ELSE "absent"], {TRUE})

NextSweep ==
    \/ \E u \in Users, req \in {r \in KeyRequests : r.lines = 1} : import_key(u, req, MaxKeys)
    \/ \E kid \in 1..MaxKeys : emergency_revoke_by_fingerprint(kid)
    \/ MarkRunning
    \/ ProcessApplyItem
    \/ ConnectOk
    \/ RemoteWriteOk
    \/ CloseOk
    \/ run_maintenance_tasks
    \/ \E step \in MaintenanceSteps : run_maintenance_tasks_raising(step)
    \/ Advance(SweepStepDays * DaySeconds, MaxMaintDays * DaySeconds)

SpecSweep == InitSweep /\ [][NextSweep]_vars

\* one identity with two active bindings; applies are queued and processed,
\* connections can fail, and the worker process can die and restart
InitCrash ==
    /\ NoPolicies
    /\ NoRequest
    /\ Database({"u1"}, [b \in Bindings |-> IF b \in {"b1", "b2"} THEN "active" ELSE "absent"],
                {TRUE})

NextCrash ==
    \/ \E u \in Users : queue_apply_for_user(u, 0)
    \/ MarkRunning
    \/ ProcessApplyItem
    \/ ConnectFail
    \/ ConnectOk
    \/ RemoteWriteOk
    \/ CloseOk
    \/ Crash
    \/ Tick(MaxOrderTime)

SpecCrash == InitCrash /\ [][NextCrash]_vars

\* two identities with active bindings; two requests enqueue side by side,
\* for one identity or for all bindings, while the worker takes entries
InitEnqueueRace ==
    /\ NoPolicies
    /\ NoRequest
    /\ Database({"u1", "u2"},
                [b \in Bindings |-> IF b \in {"b1", "b3"} THEN "active" ELSE "absent"], {TRUE})

NextEnqueueRace ==
    \/ \E c \in Callers, u \in Users, p \in Priorities :
          u \in users /\ queue_apply_check(c, ActiveAccountsOf(u), p)
    \/ \E c \in Callers, p \in Priorities : queue_apply_check(c, ActiveAccounts, p)
    \/ \E c \in Callers : queue_apply_commit(c)
    \/ MarkRunning
    \/ ProcessApplyItem
    \/ ConnectOk
    \/ RemoteWriteOk
    \/ CloseOk

SpecEnqueueRace == InitEnqueueRace /\ [][NextEnqueueRace]_vars

\* one identity with two active bindings and two worker instances polling
\* the same queue
InitWorkerRace ==
    /\ NoPolicies
    /\ NoRequest
    /\ Database({"u1"}, [b \in Bindings |-> IF b \in {"b1", "b2"} THEN "active" ELSE "absent"],
                {TRUE})

NextWorkerRace ==
    \/ \E u \in Users, p \in Priorities : queue_apply_for_user(u, p)
    \/ \E w \in Workers : process_queue_select(w)
    \/ \E w \in Workers : process_queue_mark(w)
    \/ \E w \in Workers : process_queue_run(w)

SpecWorkerRace == InitWorkerRace /\ [][NextWorkerRace]_vars

\* one identity without bindings whose generate requests overlap, and who
\* can revoke its first key
NextQuotaRace ==
    \/ \E r \in Clients, u \in Users : generate_key_begin(r, u)
    \/ \E r \in Clients : generate_key_finish(r, MaxRaceKeys)
    \/ \E u \in Users : revoke_key(u, 1)
    \/ Advance(RateStep, MaxRateTime)

SpecQuotaRace == InitRate /\ [][NextQuotaRace]_vars

\* one identity with one active binding; keys of one or two lines come and
\* go, applies are queued, and each deployment writes the temporary file and
\* starts the move on the host
InitHost ==
    /\ NoPolicies
    /\ NoRequest
    /\ Database({"u1"}, [b \in Bindings |-> IF b = "b1" THEN "active" ELSE "absent"], {TRUE})

NextHost ==
    \/ \E u \in Users, req \in {r \in KeyRequests : r.expires = "default"} :
          import_key(u, req, MaxKeys)
    \/ \E u \in Users, kid \in 1..MaxKeys : revoke_key(u, kid)
    \/ \E u \in Users : queue_apply_for_user(u, 0)
    \/ MarkRunning
    \/ ProcessApplyItem
    \/ ConnectOk
    \/ SftpWrite
    \/ \E n \in 0..(MaxKeys * MaxKeyLines) : SftpWriteFail(n)
    \/ \E moved \in BOOLEAN : ExecMove(moved)
    \/ CloseOk
    \/ Tick(MaxOrderTime)

SpecHost == InitHost /\ [][NextHost]_vars

\* one identity with two active bindings; applies are queued a bounded
\* number of times, every stage of a deployment can fail or succeed, and the
\* single worker keeps polling: a step of the worker that can be taken is
\* taken
InitLive ==
    /\ NoPolicies
    /\ NoRequest
    /\ Database({"u1"}, [b \in Bindings |-> IF b \in {"b1", "b2"} THEN "active" ELSE "absent"],
                {TRUE})

WorkerStep ==
    \/ MarkRunning
    \/ ProcessApplyItem
    \/ ConnectFail
    \/ ConnectOk
    \/ \E stage \in RemoteStages : RemoteWriteFail(stage)
    \/ RemoteWriteOk
    \/ CloseFail
    \/ CloseOk
    \/ Sleep

NextLive ==
    \/ \E u \in Users, p \in Priorities : queue_apply_for_user(u, p)
    \/ WorkerStep

SpecLive == InitLive /\ [][NextLive]_vars /\ WF_vars(WorkerStep)

\* one identity without bindings; keys are generated and the first ones
\* revoked, more than the retention window passes, and the maintenance
\* sweep runs at any moment
NextLockout ==
    \/ \E u \in Users : generate_key(u, MaxLockKeys)
    \/ \E u \in Users, kid \in 1..MaxRateKeys : revoke_key(u, kid)
    \/ run_maintenance_tasks
    \/ Advance(SweepStepDays * DaySeconds, SweepStepDays * DaySeconds)

SpecLockout == InitRate /\ [][NextLockout]_vars

\* one identity without bindings under a stored policy of at most one key;
\* two clients import side by side, keys are generated, rotated, revoked
\* and expired by the sweep
InitKeyRace ==
    /\ policies = {[id |-> 1, rules |-> [max_keys_per_user |-> 1], is_active |-> TRUE]}
    /\ NoRequest
    /\ Database({"u1"}, NoAccounts, {TRUE})

NextKeyRace ==
    \/ \E r \in Clients, u \in Users : import_key_validate(r, u)
    \/ \E r \in Clients, req \in {q \in KeyRequests : q.lines = 1} :
          import_key_commit(r, req, MaxKeys + 1)
    \/ \E u \in Users : generate_key(u, MaxKeys + 1)
    \/ \E u \in Users, kid \in 1..(MaxKeys + 1), req \in PlainRequests :
          rotate_key(u, kid, req, MaxKeys + 1)
    \/ \E u \in Users, kid \in 1..(MaxKeys + 1) : revoke_key(u, kid)
    \/ run_maintenance_tasks

SpecKeyRace == InitKeyRace /\ [][NextKeyRace]_vars

\* one identity with one active binding; keys are imported, rotated and
\* revoked on request, and the single worker keeps polling: a step of the
\* worker that can be taken is taken
NextRotate ==
    \/ \E u \in Users, req \in PlainRequests : import_key(u, req, MaxKeys)
    \/ \E u \in Users, kid \in 1..MaxKeys, req \in PlainRequests :
          rotate_key(u, kid, req, MaxKeys)
    \/ \E u \in Users, kid \in 1..MaxKeys : revoke_key(u, kid)
    \/ WorkerStep

SpecRotate == InitRender /\ [][NextRotate]_vars /\ WF_vars(WorkerStep)

\* one identity with two active bindings; applies are queued, the worker
\* loop is started, polls and sleeps, connections can fail, and stop() is
\* called at any moment after the start
NextStop ==
    \/ \E u \in Users, p \in Priorities : queue_apply_for_user(u, p)
    \/ start
    \/ start_while
    \/ start_sleep
    \/ start_wake
    \/ stop
    \/ ProcessApplyItem
    \/ ConnectFail
    \/ ConnectOk
    \/ RemoteWriteOk
    \/ CloseOk
    \/ Tick(MaxOrderTime)

SpecStop == InitCrash /\ [][NextStop]_vars

\* one identity with one active binding; applies are queued, processed or
\* cancelled from outside over days, and the maintenance sweep runs
NextCancel ==
    \/ \E u \in Users : queue_apply_for_user(u, 0)
    \/ \E id \in 1..MaxEntries, finished \in BOOLEAN : cancel(id, finished)
    \/ MarkRunning
    \/ ProcessApplyItem
    \/ ConnectOk
    \/ RemoteWriteOk
    \/ CloseOk
    \/ run_maintenance_tasks
    \/ Advance(SweepStepDays * DaySeconds, MaxMaintDays * DaySeconds)

SpecCancel == InitMaint /\ [][NextCancel]_vars

\* one identity without bindings; one-line keys are imported with an expiry
\* that has come or is a year away, rotated and revoked, days pass, and the
\* maintenance tasks run, to the end or up to a step that raises
NextExpire ==
    \/ \E u \in Users, req \in {q \in KeyRequests : q.lines = 1} :
          import_key(u, req, MaxKeys + 1)
    \/ \E u \in Users, kid \in 1..(MaxKeys + 1), req \in PlainRequests :
          rotate_key(u, kid, req, MaxKeys + 1)
    \/ \E u \in Users, kid \in 1..(MaxKeys + 1) : revoke_key(u, kid)
    \/ run_maintenance_tasks
    \/ \E step \in MaintenanceSteps : run_maintenance_tasks_raising(step)
    \/ Advance(SweepStepDays * DaySeconds, MaxMaintDays * DaySeconds)

SpecExpire == InitRate /\ [][NextExpire]_vars

\* two identities without bindings under a policy whose keys live for 20
\* days, inside the reminder offset of 30 days; keys are imported and
\* revoked, half days pass, and the maintenance tasks run, to the end or up
\* to a step that raises
InitRemind ==
    /\ policies = {[id |-> 1, rules |-> [default_ttl_days |-> 20], is_active |-> TRUE]}
    /\ NoRequest
    /\ Database({"u1", "u2"}, NoAccounts, {TRUE})

NextRemind ==
    \/ \E u \in Users, req \in PlainRequests : import_key(u, req, MaxKeys)
    \/ \E u \in Users, kid \in 1..MaxKeys : revoke_key(u, kid)
    \/ run_maintenance_tasks
    \/ \E step \in MaintenanceSteps : run_maintenance_tasks_raising(step)
    \/ Advance(RemindStep, MaxRemindDays * DaySeconds)

SpecRemind == InitRemind /\ [][NextRemind]_vars

\* one identity; operations of the kinds the scan counts are recorded, half
\* hours pass, the scan runs from the administrator's request and from
\* the maintenance tasks, and alerts are acknowledged
ScannedKinds == {"apply", "revoke"}

\* the ids an administrator acknowledges; no alert has one that begins with 0
AlertIds == (0..MaxAlerts) \X {"spike_apply", "spike_revoke"}

InitScan ==
    /\ NoPolicies
    /\ NoRequest
    /\ Database({"u1"}, NoAccounts, {TRUE})

\* an operation is recorded while the counter of its hour is below the bound
ScanRecord(u, op) ==
    /\ \A r \in rate_limits :
          (r.user_id = u /\ r.operation_type = op /\ r.window_start = BucketStart(now))
              => r.count < MaxScanOps
    /\ RecordOperation(u, op)

\* an alert is acknowledged while few alerts are stored
ScanAcknowledge(id) ==
    /\ Cardinality(security_alerts) < MaxAlerts
    /\ acknowledge_alert(id)

NextScan ==
    \/ \E u \in Users, op \in ScannedKinds : ScanRecord(u, op)
    \/ detect_unusual_activity
    \/ \E id \in AlertIds : ScanAcknowledge(id)
    \/ run_maintenance_tasks
    \/ Advance(ScanStep, MaxScanTime)

SpecScan == InitScan /\ [][NextScan]_vars

\* ------------------------------------------------------------------ claims
PendingStatuses == {"queued", "running"}
MutationOps == {"import", "generate", "revoke", "rotate"}

\* C1: every binding has at most one apply_queue row in status queued or
\* running, whatever enqueue calls and worker transitions have happened.
C1_AtMostOnePending ==
    \A b \in Bindings :
        Cardinality({e \in apply_queue : e.user_host_account_id = b
                                         /\ e.status \in PendingStatuses}) <= 1

\* an enqueue for all bindings just found the requeued row of a binding and
\* added nothing
C1_Witness ==
    /\ resp.op = "queue_apply_for_all_users"
    /\ resp.queued = 0
    /\ \E e \in apply_queue :
          /\ e.status = "queued" /\ e.retry_count >= 1
          /\ user_host_accounts[e.user_host_account_id] = "active"

\* C2: no key-set mutation is lost: while a committed and enqueued mutation
\* has not been rendered for an active binding, that binding has a queued or
\* running row that will still render it.
C2_NoMutationLost ==
    \A b \in Bindings :
        (dirty[b] /\ user_host_accounts[b] = "active")
            => \E e \in apply_queue : e.user_host_account_id = b
                                      /\ e.status \in PendingStatuses

\* C3: right after a successful import, generate, revoke or rotate, every
\* active binding of the identity has a row in status queued or running.
C3_QueuedAfterMutation ==
    (resp.op \in MutationOps /\ resp.ok)
        => \A b \in Bindings :
              (BindingUser[b] = resp.user /\ user_host_accounts[b] = "active")
                  => \E e \in apply_queue : e.user_host_account_id = b
                                            /\ e.status \in PendingStatuses

\* a revoke found one binding's row running and queued a new row for the other
C3_Witness ==
    /\ resp.op = "revoke" /\ resp.ok /\ resp.queued = 1
    /\ user_host_accounts["b1"] = "active" /\ user_host_accounts["b2"] = "active"
    /\ \E e \in apply_queue : e.status = "running"

\* C4: the failure that brings retry_count to max_retries leaves the row
\* failed with the text of that failure, a row with retry_count at
\* max_retries is failed, and a failed row never changes again.
C4_FailureTexts ==
    {"UserHostAccount not found", "UserHostAccount is not active",
     "Apply failed: connect", "Apply failed: integrity", "Apply failed: deleted"}

C4_Exhausted ==
    \A e \in apply_queue :
        e.retry_count >= max_retries => (e.status = "failed" /\ e.error # "")

C4_Step ==
    \A e \in apply_queue : \A f \in apply_queue' :
        f.id = e.id =>
            /\ (e.status = "failed" => f = e)
            /\ (f.retry_count = e.retry_count + 1 /\ f.retry_count = max_retries)
                  => /\ e.status = "running"
                     /\ f.status = "failed"
                     /\ f.error \in C4_FailureTexts
                     /\ (worker.pc = "connect" /\ ItemAccount # "absent")
                           => f.error = "Apply failed: connect"

C4_FailedAfterMaxRetries == [](C4_Exhausted) /\ [][C4_Step]_vars

\* a row of an active binding failed for good after max_retries failed connects
C4_Witness ==
    \E e \in apply_queue :
        /\ e.status = "failed" /\ e.retry_count = max_retries
        /\ e.error = "Apply failed: connect"
        /\ user_host_accounts[e.user_host_account_id] = "active"

\* C5: the worker marks running only a row that is queued and due, and no
\* other queued and due row has a higher priority or the same priority and
\* an earlier creation time; a due row is selectable whatever rows wait for
\* a later retry time.
C5_Selected(e) == \E f \in apply_queue' : f.id = e.id /\ f.status = "running"

C5_Step ==
    \A e \in apply_queue :
        (e.status = "queued" /\ C5_Selected(e)) =>
            /\ e.scheduled_at <= now
            /\ \A f \in apply_queue :
                  (f # e /\ f.status = "queued" /\ f.scheduled_at <= now)
                      => \/ e.priority > f.priority
                         \/ e.priority = f.priority /\ e.created_at < f.created_at

C5_NotBlocked ==
    (worker.pc = "idle"
        /\ \E e \in apply_queue : e.status = "queued" /\ e.scheduled_at <= now)
        => ENABLED MarkRunning

C5_PriorityThenAge == [](C5_NotBlocked) /\ [][C5_Step]_vars

\* A, B, C created in that order with priorities 0, 5, 0: B was tried first
\* and waits for its retry time, A is completed, C is running
C5_Witness ==
    \E a, b, c \in apply_queue :
        /\ a.created_at = 1 /\ b.created_at = 2 /\ c.created_at = 3
        /\ a.priority = 0 /\ b.priority = 5 /\ c.priority = 0
        /\ b.status = "queued" /\ b.retry_count = 1 /\ b.scheduled_at > now
        /\ a.status = "completed"
        /\ c.status = "running" /\ c.retry_count = 0

\* C6: a row is created queued; its status changes only queued->running,
\* running->completed, running->queued or running->failed; a completed or
\* failed row keeps its status.
C6_Transitions ==
    {<<"queued", "running">>, <<"running", "completed">>,
     <<"running", "queued">>, <<"running", "failed">>}

C6_Step ==
    /\ \A e \in apply_queue : \A f \in apply_queue' :
          f.id = e.id =>
              (f.status = e.status \/ <<e.status, f.status>> \in C6_Transitions)
    /\ \A f \in apply_queue' :
          (\A e \in apply_queue : e.id # f.id) => f.status = "queued"

C6_StateMachine == [][C6_Step]_vars

\* one row completed, another failed for good
C6_Witness ==
    /\ \E e \in apply_queue : e.status = "completed"
    /\ \E e \in apply_queue : e.status = "failed" /\ e.retry_count = max_retries

\* C7: queue_apply_for_user for an identity with B active bindings, none of
\* them with a queued or running row, adds B rows and returns B; the same
\* call made again as the very next step adds nothing and returns 0, so B
\* rows are queued or running.
C7_ActiveOf(u) == {b \in Bindings : BindingUser[b] = u /\ user_host_accounts[b] = "active"}

C7_PendingOf(q, u) ==
    {e \in q : e.user_host_account_id \in C7_ActiveOf(u) /\ e.status \in PendingStatuses}

C7_Step ==
    \A u \in Users :
        (resp'.op = "queue_apply_for_user" /\ resp'.user = u) =>
            /\ C7_PendingOf(apply_queue, u) = {}
                  => /\ resp'.queued = Cardinality(C7_ActiveOf(u))
                     /\ Cardinality(apply_queue' \ apply_queue) = Cardinality(C7_ActiveOf(u))
                     /\ Cardinality(C7_PendingOf(apply_queue', u)) = Cardinality(C7_ActiveOf(u))
            /\ (resp.op = "queue_apply_for_user" /\ resp.user = u)
                  => /\ resp'.queued = 0
                     /\ apply_queue' = apply_queue
                     /\ Cardinality(C7_PendingOf(apply_queue', u)) = Cardinality(C7_ActiveOf(u))

C7_EnqueueTwice == [][C7_Step]_vars

\* the second of two successive calls for an identity with two active
\* bindings returned 0 and the two rows of the first call are queued
C7_Witness ==
    /\ resp.op = "queue_apply_for_user" /\ resp.again /\ resp.queued = 0
    /\ Cardinality(C7_ActiveOf(resp.user)) = 2
    /\ Cardinality(apply_queue) = 2
    /\ \A e \in apply_queue : e.status = "queued" /\ e.retry_count = 0

\* C8: a row whose execution found the binding missing or not active is
\* failed for good; it is never queued for a retry.
C8_FatalIsTerminal ==
    \A e \in apply_queue :
        e.error \in {"UserHostAccount not found", "UserHostAccount is not active"}
            => e.status = "failed"

\* C9: every attempt of apply_to_host_account leaves a Deployment row: an
\* attempt that failed has a failed row with the error text, and a row is
\* running only while its attempt is in progress.
C9_AttemptErrors == {"connect", "mkdir", "write", "close"}

C9_EveryAttemptRecorded ==
    /\ \A e \in apply_queue : \A err \in C9_AttemptErrors :
          (e.error = "Apply failed: " \o err
              /\ user_host_accounts[e.user_host_account_id] # "absent")
              => \E d \in deployments :
                    /\ d.user_host_account_id = e.user_host_account_id
                    /\ d.status = "failed" /\ d.error = err
    /\ \A d \in deployments :
          d.status = "running" => (worker.dep = d.id /\ worker.pc = "write")

\* C10: a Deployment row changes only from running to success or from
\* running to failed.
C10_Step ==
    \A d \in deployments : \A f \in deployments' :
        f.id = d.id =>
            \/ f = d
            \/ d.status = "running" /\ f.status \in {"success", "failed"}

C10_RowFinalizedOnce == [][C10_Step]_vars
\* C11: with set_policy calls executed one at a time, at most one Policy is
\* active at any time, and after each call exactly one is: the row that
\* call created.
C11_Active(P) == {p \in P : p.is_active}

C11_Created == {p \in policies' : \A q \in policies : q.id # p.id}

C11_Step ==
    policies' # policies =>
        /\ Cardinality(C11_Created) = 1
        /\ C11_Active(policies') = C11_Created

C11_OneActive == [](Cardinality(C11_Active(policies)) <= 1) /\ [][C11_Step]_vars

\* two calls were made on a table that held two policies: the row of the
\* latest call is the only active one
C11_Witness ==
    /\ resp.op = "set_policy"
    /\ Cardinality(policies) = 4
    /\ C11_Active(policies) = {p \in policies : p.id = 4}
    /\ \E p \in policies : p.id = 2 /\ ~p.is_active /\ p.rules # <<>>

\* C12: with set_policy calls that overlap, every committed state of the
\* policies table has at most one active Policy, and exactly one once a
\* call has committed.
C12_NeverTwoActive ==
    /\ Cardinality(C11_Active(policies)) <= 1
    /\ resp.op = "set_policy" => Cardinality(C11_Active(policies)) = 1

\* C19: validate returns one violation per violated check, in the order of
\* the checks (1)-(5); an option string violates check (4) iff the name of
\* one of its comma-separated options, cut at "=", is not allowed.
C19_Violated(policy, r) ==
    {1 : x \in {y \in {1} : r.algorithm \notin policy.allowed_algorithms}} \cup
    {2 : x \in {y \in {1} : r.algorithm \in DOMAIN policy.min_key_lengths
                            /\ r.bit_length < policy.min_key_lengths[r.algorithm]}} \cup
    {3 : x \in {y \in {1} : policy.comment_regex # "None" /\ r.comment \notin {None, <<>>}
                            /\ ReMatch(policy.comment_regex, r.comment) = "differs"}} \cup
    {4 : x \in {y \in {1} : r.options \notin {None, <<>>}
                            /\ \E i \in DOMAIN Split(r.options, ",") :
                                  LET name == Strip(Split(Split(r.options, ",")[i], "=")[1])
                                  IN  ~(Len(name) = 1 /\ name[1] \in policy.allowed_options)}} \cup
    {5 : x \in {y \in {1} : r.user_id # "None"
                            /\ ActiveKeyCount(r.user_id) >= policy.max_keys_per_user}}

C19_Checks(errors) == [i \in DOMAIN errors |-> errors[i].check]

C19_ValidateExact ==
    validation.called =>
        LET V == C19_Violated(validation.policy, validation.request)
            reported == C19_Checks(validation.errors)
        IN  /\ {reported[i] : i \in DOMAIN reported} = V
            /\ Len(reported) = Cardinality(V)
            /\ \A i, j \in DOMAIN reported : i < j => reported[i] < reported[j]
\* C13: an identity with RATE_LIMIT_generate recorded generate operations
\* in the 60 minutes before a check is denied by check_rate_limit, in
\* whichever calendar hour they were recorded.
C13_Generates(u) ==
    {i \in DOMAIN recorded : recorded[i].user_id = u
                             /\ recorded[i].operation_type = "generate"}

C13_RollingHour ==
    \A u \in Users :
        Cardinality({i \in C13_Generates(u) : recorded[i].at > now - HourSeconds})
            >= RATE_LIMIT_generate
        => ~check_rate_limit(u, "generate")

\* C14 as stated: once the calendar hour of an identity's recorded generate
\* operations has ended, check_rate_limit allows its next generate.
C14_HourEnded ==
    \A u \in Users :
        (Cardinality(C13_Generates(u)) >= RATE_LIMIT_generate
         /\ \A i \in C13_Generates(u) : BucketStart(recorded[i].at) + HourSeconds <= now)
        => check_rate_limit(u, "generate")

\* C14: once the clock is past the end of the calendar hour of an identity's
\* recorded generate operations, check_rate_limit allows its next generate.
C14_HourPassed ==
    \A u \in Users :
        (Cardinality(C13_Generates(u)) >= RATE_LIMIT_generate
         /\ \A i \in C13_Generates(u) : BucketStart(recorded[i].at) + HourSeconds < now)
        => check_rate_limit(u, "generate")

\* five generates in the first hour, a sixth request after that hour that
\* the rate limit let through: no lockout was created for it
C14_Witness ==
    /\ resp.op = "generate" /\ resp.user = "u1"
    /\ Cardinality(C13_Generates("u1")) >= RATE_LIMIT_generate
    /\ \A i \in DOMAIN recorded : i <= RATE_LIMIT_generate => recorded[i].at < HourSeconds
    /\ now > HourSeconds
    /\ lockouts = {}
    /\ \/ resp.ok /\ recorded[Len(recorded)].at = now /\ Len(recorded) > RATE_LIMIT_generate
       \/ ~resp.ok /\ ActiveKeyCount("u1") >= 5

\* C15: a key-set mutation requested by an identity that is locked out, or
\* over the quota of the operation, is rejected and changes no key and no
\* queue entry.
C15_Step ==
    \A u \in Users :
        (resp'.op \in MutationOps /\ resp'.user = u
         /\ (check_lockout(u)
             \/ (resp'.op \in {"import", "generate"} /\ ~check_rate_limit(u, resp'.op))))
        => (~resp'.ok /\ ssh_keys' = ssh_keys /\ apply_queue' = apply_queue)

C15_GuardOnEveryPath == [][C15_Step]_vars

\* C16: an identity has at most one active lockout of a type; a lockout
\* triggered while one is active replaces it by the same row with
\* locked_until = now + the duration, not earlier than before, and the
\* attempt counter one higher.
C16_AtMostOne ==
    \A u \in Users :
        Cardinality({l \in lockouts : l.user_id = u /\ l.lockout_type = "rate_limit"
                                      /\ l.is_active}) <= 1

C16_Step ==
    \A l \in lockouts :
        (l.is_active /\ l.lockout_type = "rate_limit" /\ lockouts' # lockouts
         /\ resp'.op \in {"import", "generate"} /\ resp'.user = l.user_id)
        => /\ lockouts' = (lockouts \ {l}) \cup
                          {[l EXCEPT !.locked_until = now + LOCKOUT_rate_limit * 60,
                                     !.attempt_count = l.attempt_count + 1]}
           /\ now + LOCKOUT_rate_limit * 60 >= l.locked_until

C16_LockoutExtended == [](C16_AtMostOne) /\ [][C16_Step]_vars

\* a second denial found the identity's lockout still active and extended it
C16_Witness ==
    /\ resp.op = "generate" /\ ~resp.ok
    /\ \E l \in lockouts :
          /\ lockouts = {l}
          /\ l.user_id = resp.user /\ l.is_active /\ l.attempt_count = 2
          /\ l.locked_until = now + LOCKOUT_rate_limit * 60
\* the step of process_apply_item that renders the file of binding b
C17_Renders(b) ==
    /\ worker.pc = "process_apply_item"
    /\ worker'.pc = "connect"
    /\ \E e \in Item : e.user_host_account_id = b

\* C17: render for a binding whose identity has N active keys returns N
\* lines, one of each active key and none of any other key, key_count N,
\* and the empty content when N = 0.
C17_Step ==
    \A b \in Bindings :
        C17_Renders(b) =>
            LET content == worker'.content
                N == Cardinality(active_keys(b))
            IN  /\ Len(content) = N
                /\ worker'.key_count = N
                /\ N = 0 => content = <<>>
                /\ \A k \in active_keys(b) :
                      Cardinality({i \in DOMAIN content : content[i][1] = k.id}) = 1
                /\ \A i \in DOMAIN content : \E k \in active_keys(b) : content[i][1] = k.id

C17_OneLinePerActiveKey == [][C17_Step]_vars

\* the Deployment row of the latest apply of binding b
C18_LastDeployment(b) ==
    {d \in deployments : /\ d.user_host_account_id = b
                         /\ \A f \in deployments :
                               f.user_host_account_id = b => f.id <= d.id}

\* C18: a render of a binding whose key set did not change since its
\* previous render returns the content and the checksum of that render.
C18_Step ==
    \A b \in Bindings :
        (C17_Renders(b) /\ ~dirty[b])
        => \A d \in C18_LastDeployment(b) : Sha256(worker'.content) = d.checksum

C18_RenderDeterministic == [][C18_Step]_vars
\* the entries the sweep has to keep: not yet terminal, or finished within
\* the retention window
C20_Retained ==
    {e \in apply_queue :
        \/ e.status \in PendingStatuses
        \/ e.finished_at # -1 /\ e.finished_at >= now - RetentionDays * DaySeconds}

\* C20: a run of the maintenance sweep deletes no queue entry that is queued
\* or running and no terminal entry that finished within the last 7 days.
C20_Step ==
    resp'.op = "run_maintenance_tasks" => \A e \in C20_Retained : e \in apply_queue'

C20_SweepKeepsRetained == [][C20_Step]_vars

\* a sweep deleted an old entry and left a recent terminal one and a
\* pending one in place
C20_Witness ==
    /\ resp.op = "run_maintenance_tasks"
    /\ \E id \in 1..(next_id - 1) : \A e \in apply_queue : e.id # id
    /\ \E e \in apply_queue : e.status \in PendingStatuses
    /\ \E e \in apply_queue :
          /\ e.status \in {"completed", "failed"}
          /\ e.finished_at >= now - RetentionDays * DaySeconds
          /\ e.finished_at < now
\* C21: in a maintenance run in which one step raises, every other step
\* still runs and its effect is committed: the keys are expired, the old
\* queue entries deleted, the security records cleaned up.
C21_Step ==
    \A step \in MaintenanceSteps :
        run_maintenance_tasks_raising(step)
        => /\ step # 1 => ssh_keys' = expire_old_keys
           /\ step # 3 => apply_queue' = apply_queue \ old_queue_items
           /\ step # 6 => /\ rate_limits' = cleanup_rate_limits
                          /\ lockouts' = cleanup_lockouts

C21_StepsIndependent == [][C21_Step]_vars

\* the keys that are active before the step and not after it
C26_LeftActive ==
    {k \in ssh_keys : /\ k.status = "active"
                      /\ \E j \in ssh_keys' : j.id = k.id /\ j.status # "active"}

\* C26: after a step in which a key leaves the active status, every active
\* binding of its owner has an apply entry waiting.
C26_Step ==
    \A k \in C26_LeftActive :
        \A b \in ActiveAccountsOf(k.user_id) :
            \E e \in apply_queue' : /\ e.user_host_account_id = b
                                    /\ e.status \in PendingStatuses

C26_RemovalQueued == [][C26_Step]_vars
\* the entries in running that no worker is processing
C22_Orphans ==
    {e \in apply_queue : e.status = "running" /\ (worker.pc = "idle" \/ worker.item # e.id)}

\* C22: the entry a dying worker was processing is still stored as running;
\* an entry in running that no worker is processing is never selected by
\* the worker, stays as it is, and no entry is added for its binding.
C22_Step ==
    /\ Crash => \E e \in apply_queue' : e.id = worker.item /\ e.status = "running"
    /\ \A e \in C22_Orphans :
          /\ e \in apply_queue'
          /\ worker'.pc = "idle" \/ worker'.item # e.id
          /\ \A f \in apply_queue' \ apply_queue :
                f.user_host_account_id # e.user_host_account_id

C22_CrashLeavesRunning == [][C22_Step]_vars

\* an entry is stuck in running after a crash, the restarted worker has
\* nothing to select, and an enqueue for its identity added nothing for it
C22_Witness ==
    /\ \E e \in C22_Orphans :
          /\ resp.op = "queue_apply_for_user"
          /\ resp.user = BindingUser[e.user_host_account_id]
          /\ \A f \in apply_queue :
                f.user_host_account_id = e.user_host_account_id /\ f.status \in PendingStatuses
                => f = e
    /\ worker.pc = "idle"
    /\ Due = {}
    /\ now > 0
\* C23: the k-th failure of an entry, k below max_retries, makes it queued
\* with retry_count = k and scheduled_at = now + retry_delay * k, later than
\* its scheduled_at before; the worker marks an entry running only when its
\* scheduled_at has come.
C23_Step ==
    \A e \in apply_queue : \A f \in apply_queue' :
        f.id = e.id =>
            /\ (f.retry_count # e.retry_count /\ f.retry_count < max_retries)
                  => /\ f.retry_count = e.retry_count + 1
                     /\ f.status = "queued"
                     /\ f.scheduled_at = now + retry_delay * f.retry_count
                     /\ f.scheduled_at > e.scheduled_at
            /\ (e.status = "queued" /\ f.status = "running") => e.scheduled_at <= now

C23_LinearBackoff == [][C23_Step]_vars

\* an entry waits for its second retry
C23_Witness ==
    \E e \in apply_queue :
        /\ e.status = "queued" /\ e.retry_count = 2
        /\ e.scheduled_at > now
        /\ e.scheduled_at >= 2 * retry_delay
\* C24: when enqueue calls covering the same active binding overlap, the
\* binding still has no two entries waiting or being processed.
C24_NoDuplicateEntry ==
    \A e, f \in apply_queue :
        (/\ e.user_host_account_id = f.user_host_account_id
         /\ e.status \in PendingStatuses
         /\ f.status \in PendingStatuses) => e.id = f.id
\* C25: a worker instance selects an entry it sees queued and due, and then
\* marks it running and processes it whatever has become of the entry since:
\* the mark is not conditional on the entry still being queued, so two
\* instances can process the same entry.
C25_Step ==
    \A w \in Workers :
        /\ (pollers[w].pc = "idle" /\ pollers'[w].pc = "selected")
              => \E e \in Due : e.id = pollers'[w].item
        /\ (pollers[w].pc = "selected" /\ pollers'[w] # pollers[w]
            /\ \E e \in apply_queue : e.id = pollers[w].item)
              => /\ pollers'[w].pc = "process_apply_item"
                 /\ \E f \in apply_queue' : f.id = pollers[w].item /\ f.status = "running"

C25_MarkUnconditional == [][C25_Step]_vars

\* both instances selected the only entry ever queued for a binding, both
\* marked it running, and each has executed a deployment for it
C25_Witness ==
    \E b \in Bindings :
        /\ Cardinality({e \in apply_queue : e.user_host_account_id = b}) = 1
        /\ Cardinality({d \in deployments : d.user_host_account_id = b}) = 2
        /\ \A w \in Workers : pollers[w].pc = "idle"
        /\ \A e \in apply_queue : e.user_host_account_id = b => e.status = "completed"
\* C30: whatever the interleaving of the guarded requests of an identity,
\* no hourly counter of an operation exceeds the quota of that operation.
C30_CounterWithinQuota ==
    \A r \in rate_limits : r.count <= RateLimit(r.operation_type)

\* C28: a Deployment row becomes success only in a step after which the live
\* file of its binding holds the content that was deployed (the rename took
\* effect); a failed chown, chmod or mv never yields success
C28_Step ==
    \A d \in deployments' :
        (d.status = "success" /\ d \notin deployments)
            => remote'[d.user_host_account_id]["authorized_keys"]
                   = [exists |-> TRUE, content |-> d.checksum.sha256]

C28_SuccessMeansRenamed == [][C28_Step]_vars

\* C29: the live file of a binding is at every moment either what it was
\* before any deployment or the complete content of one of the binding's
\* deployments, and it changes only in the move step, to the complete new
\* content; writing, and a failure before the move, leave it as it was
C29_Complete ==
    \A b \in Bindings :
        \/ remote[b]["authorized_keys"] = NoFile
        \/ \E d \in deployments :
              /\ d.user_host_account_id = b
              /\ remote[b]["authorized_keys"]
                     = [exists |-> TRUE, content |-> d.checksum.sha256]

C29_Step ==
    \A b \in Bindings :
        remote'[b]["authorized_keys"] # remote[b]["authorized_keys"]
            => /\ worker.pc = "move"
               /\ b = ItemBinding
               /\ remote'[b]["authorized_keys"]
                      = [exists |-> TRUE, content |-> worker.content]

C29_LiveFileAtomic == [](C29_Complete) /\ [][C29_Step]_vars

\* a deployment replaced the live file by two lines, and a later write broke
\* off after one line: the fragment is in the temporary file only
C29_Witness ==
    \E b \in Bindings :
        /\ Len(remote[b]["authorized_keys"].content) = 2
        /\ remote[b]["authorized_keys.tmp"].exists
        /\ Len(remote[b]["authorized_keys.tmp"].content) = 1
        /\ \E d \in deployments : d.status = "failed" /\ d.error = "write"
        /\ worker.pc = "idle"

\* C27: with one worker that keeps polling and never dies, attempts that
\* always return and finitely many enqueues, every queue entry eventually
\* is completed or failed
C27_Terminal(i) ==
    \E e \in apply_queue : e.id = i /\ e.status \in {"completed", "failed"}

C27_EveryEntryTerminates ==
    \A i \in 1..MaxEntries : (\E e \in apply_queue : e.id = i) ~> C27_Terminal(i)

\* every entry is terminal: one completed after a retry, one failed for good
C27_Witness ==
    /\ apply_queue # {}
    /\ \A e \in apply_queue : e.status \in {"completed", "failed"}
    /\ \E e \in apply_queue : e.status = "completed" /\ e.retry_count > 0
    /\ \E e \in apply_queue : e.status = "failed" /\ e.retry_count = max_retries

\* C31: an identity that is locked out stays locked out until the end of
\* its lockout: 60 minutes after check_rate_limit denied it, and not earlier
C31_Step ==
    \A l \in lockouts :
        (l.is_active /\ l.locked_until > now') => check_lockout(l.user_id)'

C31_LockedForAnHour == [][C31_Step]_vars

\* C32: under the stored policy no identity ever has more active keys than
\* the policy's maximum, whatever the interleaving of its requests
C32_AtMostMaxKeys ==
    \A u \in users, policy \in CurrentPolicies :
        ActiveKeyCount(u) <= policy.max_keys_per_user

\* C33: a key that was rotated away (deprecated) is revoked some time after
\* a deployment without it, holding a newer key, has succeeded for a
\* binding of its owner
C33_Deployed(kid) ==
    \E k \in ssh_keys, d \in deployments :
        /\ k.id = kid /\ k.status = "deprecated"
        /\ d.status = "success"
        /\ BindingUser[d.user_host_account_id] = k.user_id
        /\ \E i \in DOMAIN d.checksum.sha256 : d.checksum.sha256[i][1] > kid
        /\ \A i \in DOMAIN d.checksum.sha256 : d.checksum.sha256[i][1] # kid

C33_Revoked(kid) == \E k \in ssh_keys : k.id = kid /\ k.status = "revoked"

C33_OldKeyRevoked == \A kid \in 1..MaxKeys : C33_Deployed(kid) ~> C33_Revoked(kid)

\* C34: after stop() the loop marks no further entry running, and when the
\* loop has ended the entry that was being processed has been brought to
\* completed, failed or queued: none is left running
C34_Step ==
    (~loop.running /\ loop.pc # "created")
        => \A e \in apply_queue' : e.status = "running" => e \in apply_queue

C34_Ended ==
    loop.pc = "exited"
        => /\ worker.pc = "idle"
           /\ \A e \in apply_queue : e.status # "running"

C34_StopBetweenTicks == [](C34_Ended) /\ [][C34_Step]_vars

\* stop() came while an entry was being processed: the loop has ended, that
\* entry is completed, and a due entry is left in the queue
C34_Witness ==
    /\ loop.pc = "exited"
    /\ \E e \in apply_queue : e.id = loop.during /\ e.status = "completed"
    /\ Due # {}

\* C35: after a maintenance sweep no queue entry that is completed, failed
\* or cancelled and finished more than 7 days ago remains in the queue
C35_Step ==
    resp'.op = "run_maintenance_tasks"
        => \A e \in apply_queue' :
              ~ /\ e.status \in {"completed", "failed", "cancelled"}
                /\ e.finished_at # -1
                /\ e.finished_at < now - RetentionDays * DaySeconds

C35_SweepRemovesTerminal == [][C35_Step]_vars

\* C36: after the expiry step of the maintenance tasks has run at time t, no
\* key is active with an expiry at or before t, every key that was active
\* with such an expiry is expired, and every other key is as it was
C36_Ran ==
    \/ run_maintenance_tasks
    \/ \E step \in MaintenanceSteps \ {1} : run_maintenance_tasks_raising(step)

C36_Step ==
    C36_Ran
        => /\ \A k \in ssh_keys' : ~(k.status = "active" /\ k.expires_at <= now)
           /\ \A k \in ssh_keys :
                 IF k.status = "active" /\ k.expires_at <= now
                 THEN [k EXCEPT !.status = "expired"] \in ssh_keys'
                 ELSE k \in ssh_keys'
           /\ Cardinality(ssh_keys') = Cardinality(ssh_keys)

C36_ExpiryOnly == [][C36_Step]_vars

\* the tasks ran: a key was expired, a deprecated key whose expiry has come
\* and an active key with a later expiry are as before
C36_Witness ==
    /\ resp.op = "run_maintenance_tasks"
    /\ \E k \in ssh_keys : k.status = "expired"
    /\ \E k \in ssh_keys : k.status = "deprecated" /\ k.expires_at <= now
    /\ \E k \in ssh_keys : k.status = "active" /\ k.expires_at > now

\* C37: no identity has two expiry reminders that were created less than 24
\* hours apart, also when several of its keys are inside a reminder offset
\* in the same run of the maintenance tasks
C37_OneReminderADay ==
    \A n, m \in notification_queue :
        (/\ n # m
         /\ n.user_id = m.user_id
         /\ n.notification_type = "expiry_reminder"
         /\ m.notification_type = "expiry_reminder"
         /\ n.created_at <= m.created_at)
            => m.created_at - n.created_at >= DaySeconds

\* C38: of every type there is at most one unacknowledged alert created in
\* the trailing hour, and a scan that detects a condition for which such an
\* alert exists stores no alert of that type
C38_Recent(type) ==
    {a \in security_alerts : /\ a.alert_type = type
                             /\ ~a.acknowledged
                             /\ a.created_at >= now - HourSeconds}

C38_AtMostOne ==
    \A type \in {"spike_apply", "spike_revoke"} : Cardinality(C38_Recent(type)) <= 1

C38_Step ==
    (detect_unusual_activity \/ run_maintenance_tasks)
        => \A x \in unusual_activity :
              C38_Recent(x.type) # {}
                  => {a \in security_alerts' \ security_alerts : a.alert_type = x.type} = {}

C38_Deduplicated == [](C38_AtMostOne) /\ [][C38_Step]_vars

\* the administrator's scan has detected a spike of applies while the alert
\* of an earlier scan was unacknowledged, and has stored nothing
C38_Witness ==
    /\ resp.op = "detect_unusual_activity"
    /\ resp.queued = 1
    /\ \E a \in C38_Recent("spike_apply") : a.created_at < now
    /\ \A a \in security_alerts : a.created_at < now

====
